---------------------------- MODULE Spec2Model ----------------------------
(***************************************************************************)
(* A model of the gazelle finite-element engine (jsbayley/gazelle):        *)
(* the structural Model container and its add-operations (core.rs), the    *)
(* element formulations (elements.rs), the dense linear-algebra kernel     *)
(* (matrix.rs) and the static solver / analysis runner (solvers.rs).       *)
(*                                                                         *)
(* Numbers.  The program computes in f64.  The model computes in exact     *)
(* rational arithmetic (pairs <<numerator, denominator>>), so sums are     *)
(* associative and a solve is exact.  TLC's integers are 32 bit wide, so   *)
(* the magnitudes of the inputs are kept small and the penalty stiffness   *)
(* 1e12 of the program is scaled down (penalty_factor below).              *)
(***************************************************************************)
EXTENDS Integers, Sequences, FiniteSets, TLC

(***************************************************************************)
(* Bounds of the model.                                                    *)
(***************************************************************************)
\* cap on the length of Model.loads and Model.constraints while building
MaxLoads == 1

VARIABLES
    nodes,        \* Model.nodes       : HashMap<usize, Node>
    elements,     \* Model.elements    : HashMap<usize, Element>
    materials,    \* Model.materials   : HashMap<usize, Material>
    loads,        \* Model.loads       : Vec<Load>
    constraints,  \* Model.constraints : Vec<Constraint>
    last_op,      \* the last add-operation called, its argument and what it returned
    asm,          \* a call of MatrixOps::assemble_global_stiffness and one on a reordered list
    cg,           \* the locals of a call of MatrixOps::conjugate_gradient
    pc,           \* StaticSolver::solve: the stage the call is about to run
    k,            \* StaticSolver::solve: local k (Option of a matrix)
    f,            \* StaticSolver::solve: local f (Option of a vector)
    displacements,\* StaticSolver::solve: local displacements (Option)
    reactions,    \* StaticSolver::solve: local reactions (Option)
    stages,       \* StaticSolver::solve: the stages run so far, in order
    outcome,      \* StaticSolver::solve: what the call returned (Option)
    settings,     \* StaticSolver.settings
    run,          \* a call of AnalysisRunner::run_analysis / run_multiple_analyses
    dyn,          \* a call of ModalSolver::solve or TimeHistorySolver::solve, stage by stage
    daemon,       \* GazelleDaemon: the session map, the clock and the last response
    numbering,    \* StaticSolver: the dimension and the element DOF indices of one model
    invocation    \* one call of a function of the engine: its arguments and what it returned

model_vars == <<nodes, elements, materials, loads, constraints>>

solve_vars == <<pc, k, f, displacements, reactions, stages, outcome, settings>>

\* everything outside the Model container
engine_vars == <<asm, cg, pc, k, f, displacements, reactions, stages, outcome, settings, run,
                 dyn, daemon, numbering, invocation>>

vars == <<nodes, elements, materials, loads, constraints, last_op, asm, cg,
          pc, k, f, displacements, reactions, stages, outcome, settings, run, dyn, daemon, numbering, invocation>>

(***************************************************************************)
(* No call of the engine is in progress: the values the variables of a     *)
(* part have in the specifications that do not exercise that part.         *)
(***************************************************************************)
NoAssembly == asm = [phase |-> "none"]

NoCG == cg = [status |-> "none"]

NoSolve ==
    /\ pc = "none"
    /\ k = {} /\ f = {} /\ displacements = {} /\ reactions = {}
    /\ stages = <<>>
    /\ outcome = {}
    /\ settings = [solver_type |-> "Direct"]

NoRun == run = [phase |-> "none"]

NoDyn == dyn = [pc |-> "none"]

NoDaemon == daemon = [phase |-> "none"]

NoNumbering == numbering = [pc |-> "none"]

NoCall == invocation = [fn |-> "none"]

NoModel ==
    /\ nodes = <<>> /\ elements = <<>> /\ materials = <<>>
    /\ loads = <<>> /\ constraints = <<>>
    /\ last_op = [op |-> "new", arg |-> 0, result |-> "Ok"]

(***************************************************************************)
(* Option<T>: None is the empty set, Some(v) the singleton.                *)
(***************************************************************************)
None == {}

Some(v) == {v}

IsNone(o) == o = {}

IsSome(o) == o # {}

Unwrap(o) == CHOOSE v \in o : TRUE

\* f64::NAN, as a coordinate no finite coordinate of the model equals
NaN == -999

is_nan(c) == c = NaN

\* f64::INFINITY, as a coordinate above every finite coordinate of the model
Infinity == 999

EmptyMap == [i \in {} |-> 0]

MapInsert(m, key, v) == [i \in DOMAIN m \cup {key} |-> IF i = key THEN v ELSE m[i]]

Range(s) == {s[i] : i \in DOMAIN s}

(***************************************************************************)
(* f64 values.  A finite value is a reduced fraction <<n, d>> with d > 0;  *)
(* NonFinite stands for NaN and the infinities.  Once a value of           *)
(* conjugate_gradient is NaN or infinite every later residual is, and      *)
(* every `<` on a NaN or on +infinity (a norm is never negative) is false, *)
(* so the two need not be told apart.                                      *)
(***************************************************************************)
NonFinite == <<0, 0>>

is_finite(a) == a[2] # 0

Abs(n) == IF n < 0 THEN -n ELSE n

RECURSIVE Gcd(_, _)
Gcd(a, b) == IF b = 0 THEN a ELSE Gcd(b, a % b)

\* the fraction n/d (d # 0) in lowest terms with a positive denominator
Frac(n, d) ==
    LET g == Gcd(Abs(n), Abs(d))
        s == IF d < 0 THEN -1 ELSE 1
    IN  <<s * (n \div g), s * (d \div g)>>

R(n) == <<n, 1>>

Zero == <<0, 1>>

\* The operands of an arithmetic operation are evaluated once, as the
\* operands of a machine instruction are, and the operation acts on the
\* values x, y: each operation is the only element of a set built from them.
Only(S) == CHOOSE r \in S : TRUE

FAdd(a, b) ==
    Only({IF ~is_finite(x) \/ ~is_finite(y) THEN NonFinite
          ELSE LET g == Gcd(x[2], y[2])
               IN  Frac(x[1] * (y[2] \div g) + y[1] * (x[2] \div g), (x[2] \div g) * y[2])
          : x \in {a}, y \in {b}})

FNeg(a) == Only({<<-x[1], x[2]>> : x \in {a}})

FSub(a, b) == FAdd(a, FNeg(b))

FMul(a, b) ==
    Only({IF ~is_finite(x) \/ ~is_finite(y) THEN NonFinite
          ELSE LET g1 == Gcd(Abs(x[1]), y[2])
                   g2 == Gcd(Abs(y[1]), x[2])
               IN  <<(x[1] \div g1) * (y[1] \div g2), (x[2] \div g2) * (y[2] \div g1)>>
          : x \in {a}, y \in {b}})

\* x / 0.0 is an infinity or NaN
FDiv(a, b) ==
    Only({IF ~is_finite(x) \/ ~is_finite(y) \/ y[1] = 0 THEN NonFinite
          ELSE FMul(x, IF y[1] < 0 THEN <<-y[2], -y[1]>> ELSE <<y[2], y[1]>>)
          : x \in {a}, y \in {b}})

\* a < b; false when either side is NaN
FLt(a, b) ==
    Only({is_finite(x) /\ is_finite(y) /\ x[1] * y[2] < y[1] * x[2] : x \in {a}, y \in {b}})

FAbs(a) == Only({<<Abs(x[1]), x[2]>> : x \in {a}})

(***************************************************************************)
(* nalgebra DVector / DMatrix: zero-based, entries are f64 values.         *)
(***************************************************************************)
\* the entries of a matrix are stored values: the function is tabulated
\* once, entry by entry
Stored(fn) == fn @@ EmptyMap

RECURSIVE SumRange(_, _, _)
\* term[lo] + ... + term[hi-1]; the sums are exact, so the grouping of the
\* additions does not change the value
SumRange(term, lo, hi) ==
    IF hi <= lo THEN Zero
    ELSE IF hi = lo + 1 THEN term[lo]
    ELSE FAdd(SumRange(term, lo, (lo + hi) \div 2), SumRange(term, (lo + hi) \div 2, hi))

\* term[0] + ... + term[n-1]
SumTo(term, n) == SumRange(term, 0, n)

VecZeros(n) == Stored([i \in 0..(n - 1) |-> Zero])

VecLen(v) == Cardinality(DOMAIN v)

Dot(u, v) == SumTo([i \in DOMAIN u |-> FMul(u[i], v[i])], VecLen(u))

MatZeros(n, m) ==
    [nrows |-> n, ncols |-> m, a |-> Stored([p \in (0..(n - 1)) \X (0..(m - 1)) |-> Zero])]

MatVec(m, v) ==
    [i \in 0..(m.nrows - 1) |->
        SumTo([j \in 0..(m.ncols - 1) |-> FMul(m.a[<<i, j>>], v[j])], m.ncols)]

MatMul(x, y) ==
    [nrows |-> x.nrows, ncols |-> y.ncols,
     a |-> Stored([p \in (0..(x.nrows - 1)) \X (0..(y.ncols - 1)) |->
                      SumTo([t \in 0..(x.ncols - 1) |->
                                FMul(x.a[<<p[1], t>>], y.a[<<t, p[2]>>])], x.ncols)])]

Transpose(m) ==
    [nrows |-> m.ncols, ncols |-> m.nrows,
     a |-> Stored([p \in (0..(m.ncols - 1)) \X (0..(m.nrows - 1)) |-> m.a[<<p[2], p[1]>>]])]

VecSub(u, v) == [i \in DOMAIN u |-> FSub(u[i], v[i])]

VecAdd(u, v) == [i \in DOMAIN u |-> FAdd(u[i], v[i])]

VecScale(c, v) == [i \in DOMAIN v |-> FMul(c, v[i])]

(***************************************************************************)
(* matrix.rs: MatrixOps                                                    *)
(***************************************************************************)
\* the penalty stiffness.  The program's value is 1e12; the model's is
\* scaled to what 32-bit arithmetic holds, and stays orders of magnitude
\* above every stiffness E*A of the inputs, as 1e12 does in the program.
penalty_factor == 1000

\* element counts above this are assembled by assemble_parallel
parallel_threshold == 100

\* matrices of this many rows or more are solved iteratively
iterative_threshold == 1000

Ok(v) == [ok |-> TRUE, val |-> v, err |-> "none"]

Err(kind) == [ok |-> FALSE, val |-> 0, err |-> kind]

\* mutant: the scatter overwrites the entry instead of adding to it
add_element_matrix_Overwrite(global_k, element_k, dof_indices) ==
    [global_k EXCEPT !.a =
        [p \in DOMAIN global_k.a |->
            LET hits == {q \in (DOMAIN dof_indices) \X (DOMAIN dof_indices) :
                            dof_indices[q[1]] = p[1] /\ dof_indices[q[2]] = p[2]}
            IN  IF hits = {} THEN global_k.a[p]
                ELSE LET q == CHOOSE q \in hits :
                                 \A o \in hits : o[1] < q[1] \/ (o[1] = q[1] /\ o[2] <= q[2])
                     IN  element_k.a[<<q[1] - 1, q[2] - 1>>]]]

\* dof_indices is a sequence (1-based) of global indices; local index i of
\* the element matrix is position i+1 of the sequence.  Entry (gi, gj)
\* receives every local entry mapped to it (a node listed twice maps two).
add_element_matrix(global_k, element_k, dof_indices) ==
    [global_k EXCEPT !.a =
        Stored([p \in DOMAIN global_k.a |->
            LET n == Len(dof_indices)
                \* the local (i, j) mapped to p, in the order of the two loops
                hits == SelectSeq([t \in 1..(n * n) |-> <<(t - 1) \div n, (t - 1) % n>>],
                                  LAMBDA q : /\ dof_indices[q[1] + 1] = p[1]
                                             /\ dof_indices[q[2] + 1] = p[2])
            IN  FAdd(global_k.a[p],
                     SumTo([t \in 0..(Len(hits) - 1) |-> element_k.a[hits[t + 1]]],
                           Len(hits)))])]

\* global_k[(gi, gj)] panics when an index is outside the matrix
ScatterInBounds(global_k, dof_indices) ==
    \A i \in DOMAIN dof_indices : dof_indices[i] < global_k.nrows

RECURSIVE AssembleSeq(_, _, _)
\* the sequential loop over element_matrices[1..upto]; "panic" on an index
\* outside the matrix
AssembleSeq(element_matrices, num_dofs, upto) ==
    IF upto = 0 THEN Ok(MatZeros(num_dofs, num_dofs))
    ELSE LET before == AssembleSeq(element_matrices, num_dofs, upto - 1)
             em == element_matrices[upto]
         IN  IF ~before.ok THEN before
             ELSE IF ~ScatterInBounds(before.val, em.dofs) THEN Err("panic")
             ELSE Ok(add_element_matrix(before.val, em.k, em.dofs))

\* assemble_parallel: the rayon workers take the contributions in an order
\* the scheduler picks and each scatter-adds under the mutex, one at a time;
\* exact sums do not depend on that order, so the list order stands for it
assemble_parallel(element_matrices, num_dofs) ==
    AssembleSeq(element_matrices, num_dofs, Len(element_matrices))

assemble_global_stiffness(element_matrices, num_dofs) ==
    IF Len(element_matrices) > parallel_threshold
    THEN assemble_parallel(element_matrices, num_dofs)
    ELSE AssembleSeq(element_matrices, num_dofs, Len(element_matrices))

\* MatrixOps::apply_constraints, one pair after the other
RECURSIVE ApplyPenalties(_, _, _, _, _)
ApplyPenalties(km, fv, constrained_dofs, prescribed_values, upto) ==
    IF upto = 0 THEN Ok([k |-> km, f |-> fv])
    ELSE LET before == ApplyPenalties(km, fv, constrained_dofs, prescribed_values, upto - 1)
             dof == constrained_dofs[upto]
             value == prescribed_values[upto]
         IN  IF ~before.ok THEN before
             ELSE IF dof >= before.val.k.nrows THEN Err("ValidationError")
             ELSE Ok([k |-> [before.val.k EXCEPT !.a[<<dof, dof>>] =
                                  FAdd(@, R(penalty_factor))],
                      f |-> [before.val.f EXCEPT ![dof] =
                                  FAdd(@, FMul(R(penalty_factor), value))]])

\* mutant: the penalty load does not depend on the prescribed value
matrix_apply_constraints_UnitValue(km, fv, constrained_dofs, prescribed_values) ==
    IF Len(constrained_dofs) # Len(prescribed_values) THEN Err("ValidationError")
    ELSE ApplyPenalties(km, fv, constrained_dofs,
                        [i \in DOMAIN prescribed_values |-> R(1)], Len(constrained_dofs))

\* mutant: the penalty load is stored, not accumulated
matrix_apply_constraints_StoreLoad(km, fv, constrained_dofs, prescribed_values) ==
    IF Len(constrained_dofs) # Len(prescribed_values) THEN Err("ValidationError")
    ELSE Only({IF ~applied.ok THEN applied
               ELSE Ok([k |-> applied.val.k,
                        f |-> [i \in DOMAIN fv |->
                                 IF \E c \in DOMAIN constrained_dofs : constrained_dofs[c] = i
                                 THEN FMul(R(penalty_factor),
                                           prescribed_values[CHOOSE c \in DOMAIN constrained_dofs :
                                                                 constrained_dofs[c] = i])
                                 ELSE fv[i]]])
               : applied \in {ApplyPenalties(km, fv, constrained_dofs, prescribed_values,
                                             Len(constrained_dofs))}})

\* mutant: the penalty replaces the diagonal entry instead of being added
matrix_apply_constraints_Replace(km, fv, constrained_dofs, prescribed_values) ==
    IF Len(constrained_dofs) # Len(prescribed_values) THEN Err("ValidationError")
    ELSE Only({IF ~applied.ok THEN applied
               ELSE Ok([k |-> [applied.val.k EXCEPT !.a =
                                  [p \in DOMAIN km.a |->
                                      IF p[1] = p[2] /\ \E c \in DOMAIN constrained_dofs :
                                                           constrained_dofs[c] = p[1]
                                      THEN R(penalty_factor) ELSE km.a[p]]],
                        f |-> applied.val.f])
               : applied \in {ApplyPenalties(km, fv, constrained_dofs, prescribed_values,
                                             Len(constrained_dofs))}})

matrix_apply_constraints(km, fv, constrained_dofs, prescribed_values) ==
    IF Len(constrained_dofs) # Len(prescribed_values) THEN Err("ValidationError")
    ELSE ApplyPenalties(km, fv, constrained_dofs, prescribed_values, Len(constrained_dofs))

\* the tolerance 1e-12 is below every non-zero difference of the model's values
is_symmetric(matrix) ==
    /\ matrix.nrows = matrix.ncols
    /\ \A p \in DOMAIN matrix.a : p[1] < p[2] => matrix.a[p] = matrix.a[<<p[2], p[1]>>]

is_positive_definite(matrix) ==
    \A i \in 0..(matrix.nrows - 1) : FLt(Zero, matrix.a[<<i, i>>])

Augmented(a, b) ==
    Stored([p \in (0..(a.nrows - 1)) \X (0..a.ncols) |->
               IF p[2] = a.ncols THEN b[p[1]] ELSE a.a[p]])

\* partial pivoting: the first row, from k down, of largest magnitude in column k
PivotRow(aug, n, col) ==
    CHOOSE r \in col..(n - 1) :
        \A q \in col..(n - 1) :
            /\ ~FLt(FAbs(aug[<<r, col>>]), FAbs(aug[<<q, col>>]))
            /\ q < r => FLt(FAbs(aug[<<q, col>>]), FAbs(aug[<<r, col>>]))

\* the rows r1 and r2 exchanged
SwapRows(aug, r1, r2) ==
    Stored([q \in DOMAIN aug |->
               IF q[1] = r1 THEN aug[<<r2, q[2]>>]
               ELSE IF q[1] = r2 THEN aug[<<r1, q[2]>>]
               ELSE aug[q]])

RECURSIVE Reduce(_, _, _, _)
\* elimination of columns col..n-1 of the augmented system.  With pivoting
\* (LU) it stops at a zero pivot; without (Cholesky) at a pivot that is not
\* positive: the pivots are the squares of the Cholesky factor's diagonal.
Reduce(aug, n, col, pivoting) ==
    IF col = n THEN Ok(aug)
    ELSE Only({
         IF pivoting /\ sw[<<col, col>>][1] = 0 THEN Err("SingularMatrix")
         ELSE IF ~pivoting /\ ~FLt(Zero, sw[<<col, col>>]) THEN Err("MatrixError")
         ELSE Reduce(Stored([q \in DOMAIN aug |->
                                IF q[1] = col \/ sw[<<q[1], col>>][1] = 0 THEN sw[q]
                                ELSE FSub(sw[q], FMul(FDiv(sw[<<q[1], col>>], sw[<<col, col>>]),
                                                      sw[<<col, q[2]>>]))]),
                     n, col + 1, pivoting)
         : sw \in {SwapRows(aug, col, IF pivoting THEN PivotRow(aug, n, col) ELSE col)}})

Solved(a, b, pivoting) ==
    Only({IF ~red.ok THEN red
          ELSE Ok(Stored([i \in 0..(a.nrows - 1) |->
                             FDiv(red.val[<<i, a.ncols>>], red.val[<<i, i>>])]))
          : red \in {Reduce(Augmented(a, b), a.nrows, 0, pivoting)}})

solve_cholesky(a, b) == Solved(a, b, FALSE)

solve_lu(a, b) == Solved(a, b, TRUE)

\* SVD fails only for a matrix without singular values; the number itself
\* only decides a warning
condition_number(matrix) ==
    IF matrix.nrows = 0 \/ matrix.ncols = 0 THEN Err("MatrixError") ELSE Ok("estimate")

\* the square of residual_norm: |b - a x|^2
residual_norm_sq(a, x, b) == LET res == VecSub(b, MatVec(a, x)) IN Dot(res, res)

strain_energy(stiffness, u) == FMul(<<1, 2>>, Dot(u, MatVec(stiffness, u)))

(***************************************************************************)
(* MatrixOps::conjugate_gradient.  A record holds the locals of the call:  *)
(* x, r, p, rsold, the number of loop iterations entered (iteration) and   *)
(* what the call returned (status "running" until it returns).             *)
(***************************************************************************)
\* rsnew.sqrt() < tolerance, for rsnew a sum of squares
NormBelow(rsnew, tolerance) ==
    /\ FLt(Zero, tolerance)
    /\ FLt(rsnew, FMul(tolerance, tolerance))

CGStart(a, b) ==
    Only({Only({[x |-> VecZeros(a.nrows), r |-> r0, p |-> r0, rsold |-> rs, rsnew |-> rs,
                 iteration |-> 0, status |-> "running", returned |-> None,
                 error_iterations |-> None]
                : rs \in {Dot(r0, r0)}})
          : r0 \in {Stored(VecSub(b, MatVec(a, VecZeros(a.nrows))))}})

\* the updates of x, r and rsnew in the body of the for loop
CGStep(a, st) ==
    Only({Only({Only({[x1 |-> VecAdd(st.x, VecScale(alpha, st.p)), r1 |-> r1,
                       rsnew |-> Dot(r1, r1)]
                      : r1 \in {Stored(VecSub(st.r, VecScale(alpha, ap)))}})
                : alpha \in {FDiv(st.rsold, Dot(st.p, ap))}})
          : ap \in {Stored(MatVec(a, st.p))}})

\* mutant: the convergence test is skipped and the first iterate is returned
CGIteration_NoTest(a, tolerance, st) ==
    Only({[st EXCEPT !.x = step.x1, !.r = step.r1, !.rsnew = step.rsnew,
                     !.iteration = @ + 1, !.status = "Ok", !.returned = Some(step.x1)]
          : step \in {CGStep(a, st)}})

\* one pass through the body of the for loop
CGIteration(a, tolerance, st) ==
    Only({IF NormBelow(step.rsnew, tolerance)
          THEN [st EXCEPT !.x = step.x1, !.r = step.r1, !.rsnew = step.rsnew,
                          !.iteration = @ + 1, !.status = "Ok", !.returned = Some(step.x1)]
          ELSE [st EXCEPT !.x = step.x1, !.r = step.r1, !.rsnew = step.rsnew,
                          !.iteration = @ + 1,
                          !.p = VecAdd(step.r1,
                                       VecScale(FDiv(step.rsnew, st.rsold), st.p)),
                          !.rsold = step.rsnew]
          : step \in {CGStep(a, st)}})

\* the loop has run max_iterations times without returning
CGExhaust(max_iterations, st) ==
    [st EXCEPT !.status = "ConvergenceFailure", !.error_iterations = Some(max_iterations)]

RECURSIVE CGRun(_, _, _, _)
CGRun(a, tolerance, max_iterations, st) ==
    IF st.status # "running" THEN st
    ELSE IF st.iteration >= max_iterations THEN CGExhaust(max_iterations, st)
    ELSE CGRun(a, tolerance, max_iterations, CGIteration(a, tolerance, st))

conjugate_gradient(a, b, tolerance, max_iterations) ==
    Only({IF st.status = "Ok" THEN Ok(Unwrap(st.returned)) ELSE Err("ConvergenceFailure")
          : st \in {CGRun(a, tolerance, max_iterations, CGStart(a, b))}})

\* tolerance and budget solve_iterative passes to conjugate_gradient; the
\* program's tolerance is 1e-10, scaled here like penalty_factor
iterative_tolerance == <<1, 10000>>

iterative_max_iterations == 1000

solve_iterative(a, b) ==
    IF is_symmetric(a) /\ is_positive_definite(a)
    THEN conjugate_gradient(a, b, iterative_tolerance, iterative_max_iterations)
    ELSE solve_lu(a, b)

\* mutant: the size is never looked at
linear_solver_method_NoThreshold(a) ==
    IF is_symmetric(a) /\ is_positive_definite(a) THEN "cholesky"
    ELSE "lu"

\* which of the three methods solve_linear_system takes
linear_solver_method(a) ==
    IF is_symmetric(a) /\ is_positive_definite(a) THEN "cholesky"
    ELSE IF a.nrows < iterative_threshold THEN "lu"
    ELSE "iterative"

solve_linear_system(a, b) ==
    IF a.nrows # a.ncols THEN Err("MatrixError")
    ELSE IF a.nrows # VecLen(b) THEN Err("MatrixError")
    ELSE Only({CASE method = "cholesky" -> solve_cholesky(a, b)
                 [] method = "lu" -> solve_lu(a, b)
                 [] method = "iterative" -> solve_iterative(a, b)
               : method \in {linear_solver_method(a)}})

(***************************************************************************)
(* core.rs: Dof, ElementType, Element                                      *)
(***************************************************************************)
Dofs == {"Ux", "Uy", "Uz", "Rx", "Ry", "Rz"}

ElementTypes == {"Truss2D", "Truss3D", "Beam2D", "Beam3D", "Frame2D", "Frame3D",
                 "Plate", "Shell", "Solid"}

dofs_per_node(element) ==
    CASE element.element_type = "Truss2D" -> 2
      [] element.element_type = "Truss3D" -> 3
      [] element.element_type = "Beam2D"  -> 3
      [] element.element_type = "Beam3D"  -> 6
      [] element.element_type = "Frame2D" -> 3
      [] element.element_type = "Frame3D" -> 6
      [] element.element_type = "Plate"   -> 3
      [] element.element_type = "Shell"   -> 6
      [] element.element_type = "Solid"   -> 3

expected_nodes(element) ==
    CASE element.element_type \in {"Truss2D", "Truss3D", "Beam2D", "Beam3D",
                                   "Frame2D", "Frame3D"} -> 2
      [] element.element_type = "Plate" -> 3
      [] element.element_type = "Shell" -> 3
      [] element.element_type = "Solid" -> 4

(***************************************************************************)
(* Validate: "Ok" or the kind of GazelleError returned.                    *)
(***************************************************************************)
NodeValidate(node) ==
    IF is_nan(node.x) \/ is_nan(node.y) \/ is_nan(node.z)
    THEN "ValidationError" ELSE "Ok"

ElementValidate(element) ==
    IF Len(element.nodes) = 0 THEN "ValidationError"
    ELSE IF Len(element.nodes) # expected_nodes(element) THEN "ValidationError"
    ELSE "Ok"

\* poisson_ratio is held in tenths: 3 is 0.3, 5 is 0.5, -10 is -1.0
MaterialValidate(material) ==
    IF material.material_type = "LinearElastic"
    THEN IF IsNone(material.young_modulus) THEN "InvalidMaterial"
         ELSE IF IsNone(material.poisson_ratio) THEN "InvalidMaterial"
         ELSE IF Unwrap(material.young_modulus) <= 0 THEN "InvalidMaterial"
         ELSE IF Unwrap(material.poisson_ratio) < -10
                 \/ Unwrap(material.poisson_ratio) >= 5 THEN "InvalidMaterial"
         ELSE IF IsSome(material.density) /\ Unwrap(material.density) <= 0
              THEN "InvalidMaterial"
         ELSE "Ok"
    ELSE "Ok"

(***************************************************************************)
(* Model's add-operations.  Each operator gives the result of the call for *)
(* the model as it is; the action applies it.                              *)
(***************************************************************************)
\* mutant: add_node without the contains_key check (a later insert overwrites)
AddNodeResult_NoDuplicateCheck(node) == NodeValidate(node)

\* mutant: add_element without the material lookup
AddElementResult_NoMaterialCheck(element) ==
    IF ElementValidate(element) # "Ok" THEN ElementValidate(element)
    ELSE IF \E i \in DOMAIN element.nodes : element.nodes[i] \notin DOMAIN nodes
         THEN "InvalidNodeId"
    ELSE IF element.id \in DOMAIN elements THEN "ValidationError"
    ELSE "Ok"

AddNodeResult(node) ==
    IF NodeValidate(node) # "Ok" THEN NodeValidate(node)
    ELSE IF node.id \in DOMAIN nodes THEN "ValidationError"
    ELSE "Ok"

AddElementResult(element) ==
    IF ElementValidate(element) # "Ok" THEN ElementValidate(element)
    ELSE IF \E i \in DOMAIN element.nodes : element.nodes[i] \notin DOMAIN nodes
         THEN "InvalidNodeId"
    ELSE IF element.material_id \notin DOMAIN materials THEN "ValidationError"
    ELSE IF element.id \in DOMAIN elements THEN "ValidationError"
    ELSE "Ok"

AddMaterialResult(material) ==
    IF MaterialValidate(material) # "Ok" THEN MaterialValidate(material)
    ELSE IF material.id \in DOMAIN materials THEN "ValidationError"
    ELSE "Ok"

add_node(node) ==
    /\ nodes' = IF AddNodeResult(node) = "Ok" THEN MapInsert(nodes, node.id, node) ELSE nodes
    /\ last_op' = [op |-> "add_node", arg |-> node, result |-> AddNodeResult(node)]
    /\ UNCHANGED <<elements, materials, loads, constraints>>
    /\ UNCHANGED engine_vars

add_element(element) ==
    /\ elements' = IF AddElementResult(element) = "Ok"
                   THEN MapInsert(elements, element.id, element) ELSE elements
    /\ last_op' = [op |-> "add_element", arg |-> element, result |-> AddElementResult(element)]
    /\ UNCHANGED <<nodes, materials, loads, constraints>>
    /\ UNCHANGED engine_vars

add_material(material) ==
    /\ materials' = IF AddMaterialResult(material) = "Ok"
                    THEN MapInsert(materials, material.id, material) ELSE materials
    /\ last_op' = [op |-> "add_material", arg |-> material, result |-> AddMaterialResult(material)]
    /\ UNCHANGED <<nodes, elements, loads, constraints>>
    /\ UNCHANGED engine_vars

\* add_load and add_constraint return (): they push, whatever the argument
add_load(load) ==
    /\ Len(loads) < MaxLoads
    /\ loads' = Append(loads, load)
    /\ last_op' = [op |-> "add_load", arg |-> load, result |-> "Ok"]
    /\ UNCHANGED <<nodes, elements, materials, constraints>>
    /\ UNCHANGED engine_vars

add_constraint(constraint) ==
    /\ Len(constraints) < MaxLoads
    /\ constraints' = Append(constraints, constraint)
    /\ last_op' = [op |-> "add_constraint", arg |-> constraint, result |-> "Ok"]
    /\ UNCHANGED <<nodes, elements, materials, loads>>
    /\ UNCHANGED engine_vars

(***************************************************************************)
(* elements.rs: element stiffness in global coordinates.  A node's         *)
(* coordinates are integers here; the inputs keep every element length an  *)
(* integer (axis-parallel elements), so the square root is exact.          *)
(***************************************************************************)
\* f64::sqrt on a perfect square
Sqrt(s) == CHOOSE r \in 0..s : r * r = s

\* a matrix with the given entries (a set of <<row, column, value>>), zero elsewhere
MatOf(n, entries) ==
    [nrows |-> n, ncols |-> n,
     a |-> Stored([p \in (0..(n - 1)) \X (0..(n - 1)) |->
                      IF \E en \in entries : en[1] = p[1] /\ en[2] = p[2]
                      THEN (CHOOSE en \in entries : en[1] = p[1] /\ en[2] = p[2])[3]
                      ELSE Zero])]

\* Truss2D::local_stiffness_matrix: ea = e * area, the length is not used
Truss2D_local_stiffness_matrix(element, material) ==
    IF IsNone(element.area) THEN Err("InvalidMaterial")
    ELSE IF IsNone(material.young_modulus) THEN Err("InvalidMaterial")
    ELSE LET ea == FMul(R(Unwrap(material.young_modulus)), R(Unwrap(element.area)))
         IN  Ok(MatOf(4, {<<0, 0, ea>>, <<0, 2, FNeg(ea)>>, <<2, 0, FNeg(ea)>>, <<2, 2, ea>>}))

\* the length of the segment between the first two nodes, over the given axes
ElementLength(element_nodes, with_z) ==
    LET dx == element_nodes[2].x - element_nodes[1].x
        dy == element_nodes[2].y - element_nodes[1].y
        dz == IF with_z THEN element_nodes[2].z - element_nodes[1].z ELSE 0
    IN  Sqrt(dx * dx + dy * dy + dz * dz)

\* mutant: the transformation without the zero-length check
Truss2D_transformation_matrix_NoLengthCheck(element_nodes) ==
    IF Len(element_nodes) # 2 THEN Err("ValidationError")
    ELSE LET length == R(ElementLength(element_nodes, FALSE))
             cos_theta == FDiv(R(element_nodes[2].x - element_nodes[1].x), length)
             sin_theta == FDiv(R(element_nodes[2].y - element_nodes[1].y), length)
         IN  Ok(MatOf(4, {<<0, 0, cos_theta>>, <<0, 1, sin_theta>>,
                          <<1, 0, FNeg(sin_theta)>>, <<1, 1, cos_theta>>,
                          <<2, 2, cos_theta>>, <<2, 3, sin_theta>>,
                          <<3, 2, FNeg(sin_theta)>>, <<3, 3, cos_theta>>}))

Truss2D_transformation_matrix(element_nodes) ==
    IF Len(element_nodes) # 2 THEN Err("ValidationError")
    ELSE IF ElementLength(element_nodes, FALSE) = 0 THEN Err("ValidationError")
    ELSE LET length == ElementLength(element_nodes, FALSE)
             cos_theta == Frac(element_nodes[2].x - element_nodes[1].x, length)
             sin_theta == Frac(element_nodes[2].y - element_nodes[1].y, length)
         IN  Ok(MatOf(4, {<<0, 0, cos_theta>>, <<0, 1, sin_theta>>,
                          <<1, 0, FNeg(sin_theta)>>, <<1, 1, cos_theta>>,
                          <<2, 2, cos_theta>>, <<2, 3, sin_theta>>,
                          <<3, 2, FNeg(sin_theta)>>, <<3, 3, cos_theta>>}))

Truss3D_local_stiffness_matrix(element, material) ==
    IF IsNone(element.area) THEN Err("InvalidMaterial")
    ELSE IF IsNone(material.young_modulus) THEN Err("InvalidMaterial")
    ELSE LET ea == FMul(R(Unwrap(material.young_modulus)), R(Unwrap(element.area)))
         IN  Ok(MatOf(6, {<<0, 0, ea>>, <<0, 3, FNeg(ea)>>, <<3, 0, FNeg(ea)>>, <<3, 3, ea>>}))

Truss3D_transformation_matrix(element_nodes) ==
    IF Len(element_nodes) # 2 THEN Err("ValidationError")
    ELSE IF ElementLength(element_nodes, TRUE) = 0 THEN Err("ValidationError")
    ELSE LET length == ElementLength(element_nodes, TRUE)
             l == Frac(element_nodes[2].x - element_nodes[1].x, length)
             m == Frac(element_nodes[2].y - element_nodes[1].y, length)
             n == Frac(element_nodes[2].z - element_nodes[1].z, length)
         IN  Ok(MatOf(6, {<<0, 0, l>>, <<0, 1, m>>, <<0, 2, n>>,
                          <<3, 3, l>>, <<3, 4, m>>, <<3, 5, n>>}))

\* Beam2D::local_stiffness_matrix: the placeholder length 1.0
Beam2D_local_stiffness_matrix(element, material) ==
    IF IsNone(element.area) THEN Err("InvalidMaterial")
    ELSE IF IsNone(element.inertia_z) THEN Err("InvalidMaterial")
    ELSE IF IsNone(material.young_modulus) THEN Err("InvalidMaterial")
    ELSE Only({
         Only({Ok(MatOf(6,
                {<<0, 0, ax>>, <<0, 3, FNeg(ax)>>, <<3, 0, FNeg(ax)>>, <<3, 3, ax>>,
                 <<1, 1, b12>>, <<1, 2, b6>>, <<1, 4, FNeg(b12)>>, <<1, 5, b6>>,
                 <<2, 1, b6>>, <<2, 2, b4>>, <<2, 4, FNeg(b6)>>, <<2, 5, b2>>,
                 <<4, 1, FNeg(b12)>>, <<4, 2, FNeg(b6)>>, <<4, 4, b12>>, <<4, 5, FNeg(b6)>>,
                 <<5, 1, b6>>, <<5, 2, b2>>, <<5, 4, FNeg(b6)>>, <<5, 5, b4>>}))
               : ax \in {FDiv(FMul(R(Unwrap(material.young_modulus)),
                                   R(Unwrap(element.area))), l)},
                 b12 \in {FDiv(FMul(R(12), ei), FMul(FMul(l, l), l))},
                 b6 \in {FDiv(FMul(R(6), ei), FMul(l, l))},
                 b4 \in {FDiv(FMul(R(4), ei), l)},
                 b2 \in {FDiv(FMul(R(2), ei), l)}})
         : l \in {R(1)},
           ei \in {FMul(R(Unwrap(material.young_modulus)), R(Unwrap(element.inertia_z)))}})

Beam2D_transformation_matrix(element_nodes) ==
    IF Len(element_nodes) # 2 THEN Err("ValidationError")
    ELSE IF ElementLength(element_nodes, FALSE) = 0 THEN Err("ValidationError")
    ELSE LET length == ElementLength(element_nodes, FALSE)
             cos_theta == Frac(element_nodes[2].x - element_nodes[1].x, length)
             sin_theta == Frac(element_nodes[2].y - element_nodes[1].y, length)
         IN  Ok(MatOf(6, {<<0, 0, cos_theta>>, <<0, 1, sin_theta>>,
                          <<1, 0, FNeg(sin_theta)>>, <<1, 1, cos_theta>>, <<2, 2, R(1)>>,
                          <<3, 3, cos_theta>>, <<3, 4, sin_theta>>,
                          <<4, 3, FNeg(sin_theta)>>, <<4, 4, cos_theta>>, <<5, 5, R(1)>>}))

\* ElementFactory::create_element picks the implementation.  Beam3D and
\* Frame3D (the Frame3D formulation) are outside the element families modelled.
local_stiffness_matrix(element, material) ==
    CASE element.element_type = "Truss2D" -> Truss2D_local_stiffness_matrix(element, material)
      [] element.element_type = "Truss3D" -> Truss3D_local_stiffness_matrix(element, material)
      [] element.element_type \in {"Beam2D", "Frame2D"} ->
             Beam2D_local_stiffness_matrix(element, material)
      [] element.element_type \in {"Plate", "Shell", "Solid"} -> Err("UnsupportedElement")

transformation_matrix(element, element_nodes) ==
    CASE element.element_type = "Truss2D" -> Truss2D_transformation_matrix(element_nodes)
      [] element.element_type = "Truss3D" -> Truss3D_transformation_matrix(element_nodes)
      [] element.element_type \in {"Beam2D", "Frame2D"} ->
             Beam2D_transformation_matrix(element_nodes)
      [] element.element_type \in {"Plate", "Shell", "Solid"} -> Err("UnsupportedElement")

\* ElementStiffness::global_stiffness_matrix: T^t * k_local * T
global_stiffness_matrix(element, material, element_nodes) ==
    Only({IF ~k_local.ok THEN k_local ELSE
    Only({IF ~t.ok THEN t
          ELSE Ok(MatMul(MatMul(Transpose(t.val), k_local.val), t.val))
          : t \in {transformation_matrix(element, element_nodes)}})
          : k_local \in {local_stiffness_matrix(element, material)}})

compute_stiffness_matrix(element, material, element_nodes) ==
    global_stiffness_matrix(element, material, element_nodes)

(***************************************************************************)
(* solvers.rs: StaticSolver.  `model` is a record of the five collections  *)
(* of a Model.  HashMap iteration order is not fixed: an operator that     *)
(* iterates model.elements takes the order (a sequence of the element      *)
(* ids) as an argument wherever its result can depend on it.               *)
(***************************************************************************)
TheModel ==
    [nodes |-> nodes, elements |-> elements, materials |-> materials,
     loads |-> loads, constraints |-> constraints]

dof_offset(dof) ==
    CASE dof = "Ux" -> 0 [] dof = "Uy" -> 1 [] dof = "Uz" -> 2
      [] dof = "Rx" -> 3 [] dof = "Ry" -> 4 [] dof = "Rz" -> 5

Is3DType(element_type) == element_type \in {"Truss3D", "Beam3D", "Frame3D", "Shell", "Solid"}

SetMax(S) == IF S = {} THEN 0 ELSE CHOOSE m \in S : \A o \in S : o <= m

is_2d_problem(model) ==
    \A id \in DOMAIN model.elements : ~Is3DType(model.elements[id].element_type)

max_dofs_per_node(model) ==
    SetMax({dofs_per_node(model.elements[id]) : id \in DOMAIN model.elements})

\* numbering each element by its own DOFs per node instead of the model's
map_element_dofs_efficient_ElementStride(model, element, element_nodes) ==
    LET dpn == dofs_per_node(element)
        base(node) == IF is_2d_problem(model) /\ dpn <= 3
                      THEN node.id * dpn
                      ELSE node.id * 6
    IN  [t \in 1..(Len(element_nodes) * dpn) |->
            base(element_nodes[((t - 1) \div dpn) + 1]) + ((t - 1) % dpn)]

\* element_nodes: the Node records handed in, in element order
map_element_dofs_efficient(model, element, element_nodes) ==
    LET dpn == dofs_per_node(element)
        base(node) == IF is_2d_problem(model) /\ dpn <= 3
                      THEN node.id * max_dofs_per_node(model)
                      ELSE node.id * 6
    IN  [t \in 1..(Len(element_nodes) * dpn) |->
            base(element_nodes[((t - 1) \div dpn) + 1]) + ((t - 1) % dpn)]

map_nodal_dof_traditional(node_id, dof) == node_id * 6 + dof_offset(dof)

map_nodal_dof(node_id, dof) == node_id * 2 + dof_offset(dof)

is_dof_active_for_model(model, dof) ==
    IF is_2d_problem(model) /\ max_dofs_per_node(model) <= 2 THEN dof \in {"Ux", "Uy"}
    ELSE IF is_2d_problem(model) /\ max_dofs_per_node(model) <= 3 THEN dof \in {"Ux", "Uy", "Rz"}
    ELSE TRUE

\* the Node records of those element nodes that are in the model
ExistingNodes(model, element) ==
    LET RECURSIVE Keep(_)
        Keep(i) == IF i = 0 THEN <<>>
                   ELSE IF element.nodes[i] \in DOMAIN model.nodes
                        THEN Append(Keep(i - 1), model.nodes[element.nodes[i]])
                        ELSE Keep(i - 1)
    IN  Keep(Len(element.nodes))

get_active_dofs_for_constraints(model) ==
    UNION {Range(map_element_dofs_efficient(model, model.elements[id],
                                            ExistingNodes(model, model.elements[id])))
           : id \in DOMAIN model.elements}

NodalForceLoads(model) ==
    {i \in DOMAIN model.loads : model.loads[i].load_type = "NodalForce"}

NodalConstraints(model) ==
    {i \in DOMAIN model.constraints : model.constraints[i].constraint_type = "NodalConstraint"}

calculate_active_dofs(model) ==
    IF is_2d_problem(model) /\ max_dofs_per_node(model) <= 3
    THEN Cardinality(DOMAIN model.nodes) * max_dofs_per_node(model)
    ELSE LET element_dofs ==
                 UNION {{model.elements[id].nodes[i] * 6 + local_dof :
                            i \in DOMAIN model.elements[id].nodes,
                            local_dof \in 0..(dofs_per_node(model.elements[id]) - 1)}
                        : id \in DOMAIN model.elements}
             load_dofs ==
                 {map_nodal_dof_traditional(model.loads[i].node_id, model.loads[i].dof)
                     : i \in NodalForceLoads(model)}
             constraint_dofs ==
                 UNION {{map_nodal_dof_traditional(model.constraints[i].node_id,
                                                   model.constraints[i].constraints[j][1])
                            : j \in DOMAIN model.constraints[i].constraints}
                        : i \in NodalConstraints(model)}
         IN  SetMax(element_dofs \cup load_dofs \cup constraint_dofs) + 1

\* a panic (index out of bounds, unwrap on None) unwinds out of the call:
\* no Err value is produced
IsPanic(result) == ~result.ok /\ result.err = "panic"

\* Model::validate: nodes, then elements, then materials, then emptiness
model_validate(model) ==
    IF \E id \in DOMAIN model.nodes : NodeValidate(model.nodes[id]) # "Ok"
    THEN Err("ValidationError")
    ELSE IF \E id \in DOMAIN model.elements : ElementValidate(model.elements[id]) # "Ok"
    THEN Err("ValidationError")
    ELSE IF \E id \in DOMAIN model.materials : MaterialValidate(model.materials[id]) # "Ok"
    THEN Err("InvalidMaterial")
    ELSE IF DOMAIN model.nodes = {} THEN Err("ValidationError")
    ELSE IF DOMAIN model.elements = {} THEN Err("ValidationError")
    ELSE Ok("valid")


\* mutant: the constraints are counted, not their entries
num_constraints_CountsConstraints(model) == Len(model.constraints)

\* the number of (dof, value) entries of the nodal constraints
num_constraints(model) ==
    LET RECURSIVE Count(_)
        Count(i) == IF i = 0 THEN 0
                    ELSE Count(i - 1)
                         + (IF model.constraints[i].constraint_type = "NodalConstraint"
                            THEN Len(model.constraints[i].constraints) ELSE 0)
    IN  Count(Len(model.constraints))

\* StaticSolver::validate_model
static_validate_model(model) ==
    IF ~model_validate(model).ok THEN model_validate(model)
    ELSE IF num_constraints(model) = 0 THEN Err("ValidationError")
    ELSE Ok("valid")

RECURSIVE CollectElementMatrices(_, _, _)
\* the loop of assemble_stiffness_matrix over the elements order[1..upto]:
\* the (global_dofs, k_elem) pairs pushed, or the first error
CollectElementMatrices(model, order, upto) ==
    IF upto = 0 THEN Ok(<<>>)
    ELSE Only({
         IF ~before.ok THEN before
         ELSE IF \E i \in DOMAIN element.nodes : element.nodes[i] \notin DOMAIN model.nodes
         THEN Err("InvalidNodeId")
         ELSE IF element.material_id \notin DOMAIN model.materials
         THEN Err("ValidationError")
         ELSE Only({IF ~k_elem.ok THEN k_elem
                    ELSE Ok(Append(before.val,
                                   [dofs |-> map_element_dofs_efficient(
                                                 model, element, ExistingNodes(model, element)),
                                    k |-> k_elem.val]))
                    : k_elem \in {compute_stiffness_matrix(
                                      element, model.materials[element.material_id],
                                      ExistingNodes(model, element))}})
         : before \in {CollectElementMatrices(model, order, upto - 1)},
           element \in {model.elements[order[upto]]}})

assemble_stiffness_matrix(model, order) ==
    Only({IF ~element_matrices.ok THEN element_matrices
          ELSE assemble_global_stiffness(element_matrices.val, calculate_active_dofs(model))
          : element_matrices \in {CollectElementMatrices(model, order, Len(order))}})

RECURSIVE LoadLoop(_, _, _)
\* the loop of assemble_load_vector over loads[1..upto]
LoadLoop(model, total_dofs, upto) ==
    IF upto = 0 THEN Ok(VecZeros(total_dofs))
    ELSE LET before == LoadLoop(model, total_dofs, upto - 1)
             load == model.loads[upto]
         IN  IF ~before.ok THEN before
             ELSE IF load.load_type = "NodalForce"
             THEN IF load.node_id \notin DOMAIN model.nodes THEN Err("InvalidNodeId")
                  ELSE IF map_nodal_dof(load.node_id, load.dof) < total_dofs
                  THEN Ok([before.val EXCEPT ![map_nodal_dof(load.node_id, load.dof)] =
                              FAdd(@, FMul(R(load.magnitude), R(load.factor)))])
                  ELSE before
             ELSE IF load.load_type = "Gravity"
                     /\ \E id \in DOMAIN model.elements :
                           model.elements[id].material_id \notin DOMAIN model.materials
             THEN Err("panic")
             ELSE before


\* mutant: the loop stops after the first load
assemble_load_vector_FirstLoadOnly(model) ==
    LoadLoop(model, calculate_active_dofs(model), IF model.loads = <<>> THEN 0 ELSE 1)

assemble_load_vector(model) == LoadLoop(model, calculate_active_dofs(model), Len(model.loads))

RECURSIVE ConstraintEntries(_, _)
\* the (node_id, dof, value) entries of the nodal constraints 1..upto, in order
ConstraintEntries(model, upto) ==
    IF upto = 0 THEN <<>>
    ELSE LET constraint == model.constraints[upto]
         IN  ConstraintEntries(model, upto - 1)
             \o (IF constraint.constraint_type = "NodalConstraint"
                 THEN [j \in DOMAIN constraint.constraints |->
                          [node_id |-> constraint.node_id,
                           dof |-> constraint.constraints[j][1],
                           value |-> constraint.constraints[j][2]]]
                 ELSE <<>>)

\* the entries that become penalty pairs
AppliedConstraintEntries(model, km) ==
    SelectSeq(ConstraintEntries(model, Len(model.constraints)),
              LAMBDA en : /\ is_dof_active_for_model(model, en.dof)
                          /\ map_nodal_dof(en.node_id, en.dof)
                                \in get_active_dofs_for_constraints(model)
                          /\ map_nodal_dof(en.node_id, en.dof) < km.nrows)

\* |x| > 1e-12: the inputs keep every nonzero entry far above the threshold
AboveTiny(x) == FLt(Zero, FAbs(x))

has_connection(km, i) ==
    \/ AboveTiny(km.a[<<i, i>>])
    \/ \E j \in 0..(km.ncols - 1) :
          i # j /\ (AboveTiny(km.a[<<i, j>>]) \/ AboveTiny(km.a[<<j, i>>]))

\* the loop of apply_automatic_constraints over the DOFs 0..upto-1.  Turn i
\* writes only the diagonal entry (i, i) and f[i], and the test of turn i
\* reads (i, i) and off-diagonal entries only, so every turn tests the
\* matrix as it was handed in
AutoConstraintLoop(km, fv, upto) ==
    Only({[k |-> [km EXCEPT !.a = [p \in DOMAIN km.a |->
                                     IF p[1] = p[2] /\ p[1] \in unconnected
                                     THEN R(penalty_factor) ELSE km.a[p]]],
           f |-> [i \in DOMAIN fv |-> IF i \in unconnected THEN Zero ELSE fv[i]]]
          : unconnected \in {{i \in 0..(upto - 1) : ~has_connection(km, i)}}})

\* mutant: the automatic pass pins the diagonal but leaves the load entry
apply_automatic_constraints_KeepLoad(km, fv) ==
    Ok([k |-> AutoConstraintLoop(km, fv, km.nrows).k, f |-> fv])

apply_automatic_constraints(km, fv) == Ok(AutoConstraintLoop(km, fv, km.nrows))

\* StaticSolver::apply_constraints: Ok([k, f]) or the error
static_apply_constraints(model, km, fv) ==
    Only({IF ~explicit.ok THEN explicit
          ELSE apply_automatic_constraints(explicit.val.k, explicit.val.f)
          : explicit \in
              {Only({matrix_apply_constraints(
                         km, fv,
                         [i \in DOMAIN applied |->
                             map_nodal_dof(applied[i].node_id, applied[i].dof)],
                         [i \in DOMAIN applied |-> R(applied[i].value)])
                     : applied \in {AppliedConstraintEntries(model, km)}})}})

\* the match on settings.solver_type
solve_system(solver_type, km, fv) ==
    CASE solver_type \in {"Direct", "Sparse"} -> solve_linear_system(km, fv)
      [] solver_type = "Iterative" -> solve_iterative(km, fv)

compute_reactions(km, u, fv) == VecSub(MatVec(km, u), fv)

\* AnalysisResults::new and the convergence_info set by solve
static_results(km, fv, u, r) ==
    [displacements |-> u, reactions |-> r, strain_energy |-> Zero,
     analysis_type |-> "Static",
     convergence_info |-> [iterations |-> 1, converged |-> TRUE,
                           residual_norm_sq |-> residual_norm_sq(km, u, fv)]]

(***************************************************************************)
(* Inputs of the add-operations.                                           *)
(***************************************************************************)
NodeIds == {0, 1}

\* a finite, an infinite and a NaN coordinate
BuildNodes == [id : NodeIds, x : {0, Infinity, NaN}, y : {0}, z : {0}]

BuildMaterials ==
    [id : {0, 1}, material_type : {"LinearElastic"},
     young_modulus : {None, Some(2)}, poisson_ratio : {Some(3)},
     density : {None, Some(1)}]

BuildElements ==
    [id : {0}, element_type : {"Truss2D", "Plate"},
     nodes : {<<0, 1>>, <<1, 0>>, <<0, 7>>, <<0>>},
     material_id : {0, 9}, area : {Some(1)}, inertia_z : {None}]

BuildLoads ==
    [load_type : {"NodalForce"}, node_id : {0, 7}, dof : {"Ux"}, magnitude : {1},
     factor : {1}]

BuildConstraints ==
    [constraint_type : {"NodalConstraint"}, node_id : {0, 7},
     constraints : {<<<<"Ux", 0>>>>}]
    \cup [constraint_type : {"RigidLink"}, node_id : {0}, constraints : {<<>>}]

InitBuild ==
    /\ nodes = EmptyMap
    /\ elements = EmptyMap
    /\ materials = EmptyMap
    /\ loads = <<>>
    /\ constraints = <<>>
    /\ last_op = [op |-> "new", arg |-> 0, result |-> "Ok"]
    /\ NoAssembly /\ NoCG /\ NoSolve /\ NoRun /\ NoDyn /\ NoDaemon /\ NoNumbering /\ NoCall

AddNode == \E node \in BuildNodes : add_node(node)

AddElement == \E element \in BuildElements : add_element(element)

AddMaterial == \E material \in BuildMaterials : add_material(material)

AddLoad == \E load \in BuildLoads : add_load(load)

AddConstraint == \E constraint \in BuildConstraints : add_constraint(constraint)

NextBuild == AddNode \/ AddElement \/ AddMaterial \/ AddLoad \/ AddConstraint

SpecBuild == InitBuild /\ [][NextBuild]_vars


(***************************************************************************)
(* Claims about the add-operations, checked under SpecBuild.               *)
(***************************************************************************)
NodesKept == \A id \in DOMAIN nodes : id \in DOMAIN nodes' /\ nodes'[id] = nodes[id]

ElementsKept ==
    \A id \in DOMAIN elements : id \in DOMAIN elements' /\ elements'[id] = elements[id]

MaterialsKept ==
    \A id \in DOMAIN materials : id \in DOMAIN materials' /\ materials'[id] = materials[id]

DuplicateStep ==
    \/ last_op'.op = "add_node" /\ last_op'.arg.id \in DOMAIN nodes
    \/ last_op'.op = "add_element" /\ last_op'.arg.id \in DOMAIN elements
    \/ last_op'.op = "add_material" /\ last_op'.arg.id \in DOMAIN materials

\* C5: add_node, add_element and add_material called with an id already
\* present for that kind return an error and leave the whole model as it
\* was; no step ever removes or replaces an entity stored under an id, so
\* an id keeps the first entity successfully added under it.
C5_DuplicateIdRejected ==
    [][/\ DuplicateStep => (last_op'.result # "Ok" /\ UNCHANGED model_vars)
       /\ NodesKept /\ ElementsKept /\ MaterialsKept]_vars

\* a valid node was offered under an id that holds a different node, and
\* was turned away
C5_Witness ==
    /\ last_op.op = "add_node"
    /\ NodeValidate(last_op.arg) = "Ok"
    /\ last_op.arg.id \in DOMAIN nodes
    /\ nodes[last_op.arg.id] # last_op.arg
    /\ last_op.result = "ValidationError"

ElementReferencesExist(element) ==
    /\ \A i \in DOMAIN element.nodes : element.nodes[i] \in DOMAIN nodes
    /\ element.material_id \in DOMAIN materials

HasUnknownNode(element) ==
    \E i \in DOMAIN element.nodes : element.nodes[i] \notin DOMAIN nodes

\* C6: every element the model holds references only nodes and a material
\* the model holds; add_element of an element that passes Element::validate
\* returns InvalidNodeId when one of its node ids is unknown, and
\* ValidationError when its nodes are known and its material id is unknown
\* (the code checks in that order); in both cases the model is unchanged.
C6_ElementReferencesValid ==
    [][/\ \A id \in DOMAIN elements' :
             /\ \A i \in DOMAIN elements'[id].nodes :
                    elements'[id].nodes[i] \in DOMAIN nodes'
             /\ elements'[id].material_id \in DOMAIN materials'
       /\ (last_op'.op = "add_element" /\ ElementValidate(last_op'.arg) = "Ok") =>
             /\ HasUnknownNode(last_op'.arg) =>
                    (last_op'.result = "InvalidNodeId" /\ UNCHANGED model_vars)
             /\ (~HasUnknownNode(last_op'.arg)
                 /\ last_op'.arg.material_id \notin DOMAIN materials) =>
                    (last_op'.result = "ValidationError" /\ UNCHANGED model_vars)]_vars

\* the model holds an element, and an element with known nodes and an
\* unknown material has just been turned away
C6_Witness ==
    /\ DOMAIN elements # {}
    /\ last_op.op = "add_element"
    /\ ElementValidate(last_op.arg) = "Ok"
    /\ ~HasUnknownNode(last_op.arg)
    /\ last_op.arg.material_id \notin DOMAIN materials
    /\ last_op.result = "ValidationError"

\* C7 (as claimed): the model holds no load and no constraint whose node id
\* is absent from the model.
C7_NoDanglingLoadOrConstraint ==
    /\ \A i \in DOMAIN loads : loads[i].node_id \in DOMAIN nodes
    /\ \A i \in DOMAIN constraints :
           constraints[i].constraint_type = "NodalConstraint" =>
               constraints[i].node_id \in DOMAIN nodes

(***************************************************************************)
(* MatrixOps::assemble_global_stiffness called on a list of contributions  *)
(* and on a reordering of the same list.                                   *)
(***************************************************************************)
\* cap on the number of contributions of a list
MaxContributions == 3

\* the numbers of global DOFs tried; an index list reaching 2 is outside a
\* matrix of 2 DOFs
AsmNumDofs == {2, 3}

SymMatrix2(a, b, c) ==
    [nrows |-> 2, ncols |-> 2,
     a |-> [p \in (0..1) \X (0..1) |->
               IF p = <<0, 0>> THEN R(a) ELSE IF p = <<1, 1>> THEN R(c) ELSE R(b)]]

Matrix1(a) == [nrows |-> 1, ncols |-> 1, a |-> [p \in {<<0, 0>>} |-> R(a)]]

\* (global-index-list, local-matrix) pairs: bars sharing DOF 1, a bar whose
\* two ends are the same DOF, a one-DOF spring
AsmContributions ==
    {[dofs |-> <<0, 1>>, k |-> SymMatrix2(2, -2, 2)],
     [dofs |-> <<1, 2>>, k |-> SymMatrix2(3, -3, 3)],
     [dofs |-> <<1, 0>>, k |-> SymMatrix2(1, 0, 5)],
     [dofs |-> <<1, 1>>, k |-> SymMatrix2(1, -1, 1)],
     [dofs |-> <<1>>, k |-> Matrix1(7)]}

AsmLists == UNION {[1..n -> AsmContributions] : n \in 0..MaxContributions}

Orderings(n) == {p \in [1..n -> 1..n] : \A i, j \in 1..n : p[i] = p[j] => i = j}

Permute(list, p) == [i \in 1..Len(list) |-> list[p[i]]]

InitAssemble ==
    /\ NoModel /\ NoCG /\ NoSolve /\ NoRun /\ NoDyn /\ NoDaemon /\ NoNumbering /\ NoCall
    /\ \E list \in AsmLists, n \in AsmNumDofs :
          asm = [phase |-> "called", element_matrices |-> list, num_dofs |-> n,
                 order |-> <<>>, result |-> None, reordered |-> None]

\* the call on the list as given
AssembleGiven ==
    /\ asm.phase = "called"
    /\ asm' = [asm EXCEPT !.phase = "assembled",
                  !.result = Some(assemble_global_stiffness(asm.element_matrices, asm.num_dofs))]
    /\ UNCHANGED <<model_vars, last_op, cg, solve_vars, run, dyn, daemon, numbering, invocation>>

\* the call on the same contributions in another order
AssembleReordered ==
    /\ asm.phase = "assembled"
    /\ \E p \in Orderings(Len(asm.element_matrices)) :
          asm' = [asm EXCEPT !.phase = "compared", !.order = p,
                     !.reordered = Some(assemble_global_stiffness(
                                           Permute(asm.element_matrices, p), asm.num_dofs))]
    /\ UNCHANGED <<model_vars, last_op, cg, solve_vars, run, dyn, daemon, numbering, invocation>>

NextAssemble == AssembleGiven \/ AssembleReordered

SpecAssemble == InitAssemble /\ [][NextAssemble]_vars

\* the sum of the local entries of contribution em mapped to global (gi, gj)
MappedSum(em, gi, gj) ==
    LET n == Len(em.dofs)
        at == {q \in (1..n) \X (1..n) : em.dofs[q[1]] = gi /\ em.dofs[q[2]] = gj}
        RECURSIVE SumOver(_)
        SumOver(S) == IF S = {} THEN Zero
                      ELSE LET q == CHOOSE q \in S : TRUE
                           IN  FAdd(em.k.a[<<q[1] - 1, q[2] - 1>>], SumOver(S \ {q}))
    IN  SumOver(at)

RECURSIVE ContributionSum(_, _, _, _)
ContributionSum(list, gi, gj, upto) ==
    IF upto = 0 THEN Zero
    ELSE FAdd(MappedSum(list[upto], gi, gj), ContributionSum(list, gi, gj, upto - 1))

\* C4: assemble_global_stiffness gives the same result for every ordering of
\* the same contributions, and every entry (i, j) of the matrix it returns is
\* the sum of all local entries mapped to (i, j): contributions to a shared
\* DOF add up, none is lost or overwritten.
C4_AssemblyPermutationInvariant ==
    /\ asm.phase = "compared" => asm.reordered = asm.result
    /\ asm.phase \in {"assembled", "compared"} /\ Unwrap(asm.result).ok =>
          \A p \in DOMAIN Unwrap(asm.result).val.a :
              Unwrap(asm.result).val.a[p] =
                  ContributionSum(asm.element_matrices, p[1], p[2], Len(asm.element_matrices))

\* two contributions share DOF 1, were assembled in two different orders and
\* a matrix came back
C4_Witness ==
    /\ asm.phase = "compared"
    /\ Unwrap(asm.result).ok
    /\ Len(asm.element_matrices) >= 2
    /\ asm.element_matrices[1].dofs = <<0, 1>>
    /\ asm.element_matrices[2].dofs = <<1, 2>>
    /\ asm.order[1] = 2
    /\ Unwrap(asm.result).val.a[<<1, 1>>] = R(5)

(***************************************************************************)
(* A call of MatrixOps::conjugate_gradient, one loop iteration per step.   *)
(***************************************************************************)
\* largest iteration budget tried
MaxIterations == 3

Matrix2(a, b, c, d) ==
    [nrows |-> 2, ncols |-> 2,
     a |-> [p \in (0..1) \X (0..1) |->
               IF p = <<0, 0>> THEN R(a) ELSE IF p = <<0, 1>> THEN R(b)
               ELSE IF p = <<1, 0>> THEN R(c) ELSE R(d)]]

Vector2(a, b) == [i \in 0..1 |-> IF i = 0 THEN R(a) ELSE R(b)]

\* symmetric positive definite, the identity, indefinite, singular, zero
\* and unsymmetric matrices
CGMatrices ==
    {Matrix2(2, 1, 1, 2), Matrix2(4, 1, 1, 3), Matrix2(1, 0, 0, 1),
     Matrix2(1, 2, 2, 1), Matrix2(1, 1, 1, 1), Matrix2(0, 0, 0, 0),
     Matrix2(0, 1, 0, 0)}

CGVectors == {Vector2(0, 0), Vector2(1, 0), Vector2(1, 2), Vector2(3, -1)}

CGTolerances == {Frac(1, 10), R(1), Zero, R(-1)}

InitCG ==
    /\ NoModel /\ NoAssembly /\ NoSolve /\ NoRun /\ NoDyn /\ NoDaemon /\ NoNumbering /\ NoCall
    /\ \E a \in CGMatrices, b \in CGVectors, tolerance \in CGTolerances,
          max_iterations \in 0..MaxIterations :
          cg = CGStart(a, b) @@ [a |-> a, b |-> b, tolerance |-> tolerance,
                                 max_iterations |-> max_iterations]

\* the body of the for loop, entered while iterations are left
CGIterate ==
    /\ cg.status = "running"
    /\ cg.iteration < cg.max_iterations
    /\ cg' = CGIteration(cg.a, cg.tolerance, cg)
    /\ UNCHANGED <<model_vars, last_op, asm, solve_vars, run, dyn, daemon, numbering, invocation>>

\* the loop is over: Err(ConvergenceFailure { iterations: max_iterations })
CGFail ==
    /\ cg.status = "running"
    /\ cg.iteration >= cg.max_iterations
    /\ cg' = CGExhaust(cg.max_iterations, cg)
    /\ UNCHANGED <<model_vars, last_op, asm, solve_vars, run, dyn, daemon, numbering, invocation>>

NextCG == CGIterate \/ CGFail

SpecCG == InitCG /\ [][NextCG]_vars

\* the loop body and the return after it are code of one thread that always
\* runs on
SpecCGFair == SpecCG /\ WF_vars(NextCG)

\* the call has returned a vector: it is the iterate of an iteration within
\* the budget at which the norm of the residual b - A x was below tolerance
CGReturnedConverged ==
    /\ cg.returned = Some(cg.x)
    /\ cg.error_iterations = None
    /\ 1 <= cg.iteration /\ cg.iteration <= cg.max_iterations
    /\ cg.r = VecSub(cg.b, MatVec(cg.a, cg.x))
    /\ cg.rsnew = Dot(cg.r, cg.r)
    /\ NormBelow(cg.rsnew, cg.tolerance)

\* the call has failed: the error carries the budget and no vector is returned
CGReturnedFailure ==
    /\ cg.returned = None
    /\ cg.error_iterations = Some(cg.max_iterations)
    /\ cg.iteration = cg.max_iterations

CGSafe ==
    /\ cg.status \in {"running", "Ok", "ConvergenceFailure"}
    /\ cg.iteration <= cg.max_iterations
    /\ cg.status = "running" => cg.returned = None /\ cg.error_iterations = None
    /\ cg.status = "Ok" => CGReturnedConverged
    /\ cg.status = "ConvergenceFailure" => CGReturnedFailure

\* C8: conjugate_gradient always returns, after at most max_iterations loop
\* iterations; it returns a vector only from an iteration at which the
\* residual norm is below the tolerance, and otherwise the error
\* ConvergenceFailure carrying max_iterations and no vector.
C8_ConjugateGradientBounded ==
    /\ []CGSafe
    /\ <>(cg.status # "running")

\* a solve that needed two iterations and converged on the last one allowed
C8_Witness ==
    /\ cg.status = "Ok"
    /\ cg.iteration = 2
    /\ cg.max_iterations = 2
    /\ cg.tolerance = Frac(1, 10)

\* what StaticSolver::solve returns: Err(kind) of a failed stage, or the
\* results; a panic is no return value at all
Failure(result) ==
    [status |-> IF IsPanic(result) THEN "Panic" ELSE "Err", error |-> result.err,
     results |-> None]

Success(results) == [status |-> "Ok", error |-> "none", results |-> Some(results)]

\* StaticSolver::solve as one call, the elements iterated in the given order.
\* Each stage's result is bound once; `?` returns the first error.
static_solve(model, solver_type, order) ==
    Only({IF ~valid.ok THEN Failure(valid) ELSE
    Only({IF ~k0.ok THEN Failure(k0) ELSE
    Only({IF ~f0.ok THEN Failure(f0) ELSE
    Only({IF ~kf.ok THEN Failure(kf) ELSE
    Only({IF ~cond.ok THEN Failure(cond) ELSE
    Only({IF ~u.ok THEN Failure(u) ELSE
    Only({Success(static_results(kf.val.k, kf.val.f, u.val, r))
          : r \in {compute_reactions(kf.val.k, u.val, kf.val.f)}})
          : u \in {solve_system(solver_type, kf.val.k, kf.val.f)}})
          : cond \in {condition_number(kf.val.k)}})
          : kf \in {static_apply_constraints(model, k0.val, f0.val)}})
          : f0 \in {assemble_load_vector(model)}})
          : k0 \in {assemble_stiffness_matrix(model, order)}})
          : valid \in {static_validate_model(model)}})

(***************************************************************************)
(* A call of StaticSolver::solve, one stage per step.                      *)
(***************************************************************************)
StageOrder ==
    <<"validate", "assemble_stiffness", "assemble_loads", "apply_constraints",
      "condition_number", "solve", "reactions", "results">>

\* the stage `stage` ran and gave `result`: on Ok go on to `next`, else return
StageDone(stage, result, next) ==
    /\ stages' = Append(stages, stage)
    /\ IF result.ok
       THEN pc' = next /\ UNCHANGED outcome
       ELSE pc' = "done" /\ outcome' = Some(Failure(result))

ValidateModel ==
    /\ pc = "validate"
    /\ StageDone("validate", static_validate_model(TheModel), "assemble_stiffness")
    /\ UNCHANGED <<k, f, displacements, reactions, settings>>
    /\ UNCHANGED <<model_vars, last_op, asm, cg, run, dyn, daemon, numbering, invocation>>

\* the element ids in the iteration order `order` of the element map
ElementOrder(order) ==
    [i \in DOMAIN order |->
        CHOOSE id \in DOMAIN elements :
            Cardinality({o \in DOMAIN elements : o < id}) = order[i] - 1]

AssembleStiffness ==
    /\ pc = "assemble_stiffness"
    /\ \E order \in Orderings(Cardinality(DOMAIN elements)) :
       \E result \in {assemble_stiffness_matrix(TheModel, ElementOrder(order))} :
              /\ StageDone("assemble_stiffness", result, "assemble_loads")
              /\ k' = IF result.ok THEN Some(result.val) ELSE k
    /\ UNCHANGED <<f, displacements, reactions, settings>>
    /\ UNCHANGED <<model_vars, last_op, asm, cg, run, dyn, daemon, numbering, invocation>>

AssembleLoads ==
    /\ pc = "assemble_loads"
    /\ \E result \in {assemble_load_vector(TheModel)} :
           /\ StageDone("assemble_loads", result, "apply_constraints")
           /\ f' = IF result.ok THEN Some(result.val) ELSE f
    /\ UNCHANGED <<k, displacements, reactions, settings>>
    /\ UNCHANGED <<model_vars, last_op, asm, cg, run, dyn, daemon, numbering, invocation>>

ApplyConstraints ==
    /\ pc = "apply_constraints"
    /\ \E result \in {static_apply_constraints(TheModel, Unwrap(k), Unwrap(f))} :
           /\ StageDone("apply_constraints", result, "condition_number")
           /\ k' = IF result.ok THEN Some(result.val.k) ELSE k
           /\ f' = IF result.ok THEN Some(result.val.f) ELSE f
    /\ UNCHANGED <<displacements, reactions, settings>>
    /\ UNCHANGED <<model_vars, last_op, asm, cg, run, dyn, daemon, numbering, invocation>>

CheckConditioning ==
    /\ pc = "condition_number"
    /\ StageDone("condition_number", condition_number(Unwrap(k)), "solve")
    /\ UNCHANGED <<k, f, displacements, reactions, settings>>
    /\ UNCHANGED <<model_vars, last_op, asm, cg, run, dyn, daemon, numbering, invocation>>

SolveSystem ==
    /\ pc = "solve"
    /\ \E result \in {solve_system(settings.solver_type, Unwrap(k), Unwrap(f))} :
           /\ StageDone("solve", result, "reactions")
           /\ displacements' = IF result.ok THEN Some(result.val) ELSE displacements
    /\ UNCHANGED <<k, f, reactions, settings>>
    /\ UNCHANGED <<model_vars, last_op, asm, cg, run, dyn, daemon, numbering, invocation>>

ComputeReactions ==
    /\ pc = "reactions"
    /\ stages' = Append(stages, "reactions")
    /\ reactions' = Some(compute_reactions(Unwrap(k), Unwrap(displacements), Unwrap(f)))
    /\ pc' = "results"
    /\ UNCHANGED <<k, f, displacements, outcome, settings>>
    /\ UNCHANGED <<model_vars, last_op, asm, cg, run, dyn, daemon, numbering, invocation>>

PackageResults ==
    /\ pc = "results"
    /\ stages' = Append(stages, "results")
    /\ outcome' = Some(Success(static_results(Unwrap(k), Unwrap(f), Unwrap(displacements),
                                              Unwrap(reactions))))
    /\ pc' = "done"
    /\ UNCHANGED <<k, f, displacements, reactions, settings>>
    /\ UNCHANGED <<model_vars, last_op, asm, cg, run, dyn, daemon, numbering, invocation>>

NextSolve ==
    \/ ValidateModel \/ AssembleStiffness \/ AssembleLoads \/ ApplyConstraints
    \/ CheckConditioning \/ SolveSystem \/ ComputeReactions \/ PackageResults

(***************************************************************************)
(* The models a static solve is run on: two nodes, at most one element     *)
(* between them, one material; each is a model the add-operations build    *)
(* (valid nodes and material, an element whose references exist; loads     *)
(* and constraints are stored as given).                                   *)
(***************************************************************************)
\* the ids of the support node and the tip node: contiguous from 0, with a
\* gap, and starting at 1
SolveNodeIds == {<<0, 1>>, <<0, 2>>, <<1, 2>>}

\* where the tip node is; the support node is at the origin
SolveTipPositions == {<<0, 0, 0>>, <<1, 0, 0>>, <<2, 0, 0>>, <<0, 2, 0>>}

SolveElementTypes == {"Truss2D", "Truss3D", "Beam2D", "Plate"}

SolveAreas == {None, Some(2)}

SolveModuli == {1, 3}

SolveSolverTypes == {"Direct", "Sparse"}

SolveNodes(ids, tip) ==
    MapInsert(MapInsert(EmptyMap, ids[1], [id |-> ids[1], x |-> 0, y |-> 0, z |-> 0]),
              ids[2], [id |-> ids[2], x |-> tip[1], y |-> tip[2], z |-> tip[3]])

SolveElement(ids, element_type, area) ==
    [id |-> 0, element_type |-> element_type,
     nodes |-> IF element_type = "Plate" THEN <<ids[1], ids[2], ids[1]>> ELSE <<ids[1], ids[2]>>,
     material_id |-> 0, area |-> area,
     inertia_z |-> IF element_type = "Beam2D" THEN Some(1) ELSE None]

SolveMaterial(e) ==
    [id |-> 0, material_type |-> "LinearElastic", young_modulus |-> Some(e),
     poisson_ratio |-> Some(3), density |-> Some(1)]

\* Constraint::fixed_support: all six DOFs at zero
fixed_support(node_id) ==
    [constraint_type |-> "NodalConstraint", node_id |-> node_id,
     constraints |-> <<<<"Ux", 0>>, <<"Uy", 0>>, <<"Uz", 0>>,
                       <<"Rx", 0>>, <<"Ry", 0>>, <<"Rz", 0>>>>]

prescribed_displacement(node_id, dof, value) ==
    [constraint_type |-> "NodalConstraint", node_id |-> node_id,
     constraints |-> <<<<dof, value>>>>]

\* Constraint::rigid_link
rigid_link(master_node, slave_nodes, linked_dofs) ==
    [constraint_type |-> "RigidLink", master_node |-> master_node,
     slave_nodes |-> slave_nodes, linked_dofs |-> linked_dofs]

\* a constraint of the variant EqualDisplacement
equal_displacement(node_ids, dof) ==
    [constraint_type |-> "EqualDisplacement", nodes |-> node_ids, dof |-> dof]

\* a constraint of the variant Linear with one term
linear_constraint(node_id, dof, rhs) ==
    [constraint_type |-> "Linear",
     terms |-> <<[node_id |-> node_id, dof |-> dof, coefficient |-> 1]>>, rhs |-> rhs]

\* no constraint, a fixed support, a prescribed non-zero displacement, a
\* support that leaves the axial direction free, the first two listed twice,
\* a nodal constraint without entries, a rigid link, and an equal displacement
\* with a linear constraint
SolveConstraints(ids) ==
    {<<>>, <<fixed_support(ids[1])>>, <<prescribed_displacement(ids[1], "Ux", 1)>>,
     <<prescribed_displacement(ids[1], "Uy", 0)>>,
     <<fixed_support(ids[1]), fixed_support(ids[1])>>,
     <<prescribed_displacement(ids[1], "Ux", 1), prescribed_displacement(ids[1], "Ux", 1)>>,
     <<[constraint_type |-> "NodalConstraint", node_id |-> ids[1], constraints |-> <<>>]>>,
     <<rigid_link(ids[1], <<ids[2]>>, <<"Ux", "Uy">>)>>,
     <<equal_displacement(ids, "Ux"), linear_constraint(ids[1], "Ux", 0)>>}

nodal_force(node_id, dof, magnitude) ==
    [load_type |-> "NodalForce", node_id |-> node_id, dof |-> dof,
     magnitude |-> magnitude, factor |-> 1]

\* no load, an axial tip force, a tip force of zero magnitude, a force on a
\* node that is not in the model
SolveLoads(ids) ==
    {<<>>, <<nodal_force(ids[2], "Ux", 3)>>, <<nodal_force(ids[2], "Ux", 0)>>,
     <<nodal_force(3, "Ux", 3)>>}

InitSolve ==
    /\ NoAssembly /\ NoCG /\ NoRun /\ NoDyn /\ NoDaemon /\ NoNumbering /\ NoCall
    /\ last_op = [op |-> "new", arg |-> 0, result |-> "Ok"]
    /\ \E ids \in SolveNodeIds, tip \in SolveTipPositions :
          /\ nodes = SolveNodes(ids, tip)
          /\ \E element_type \in SolveElementTypes, area \in SolveAreas :
                elements \in {EmptyMap,
                              MapInsert(EmptyMap, 0, SolveElement(ids, element_type, area))}
          /\ constraints \in SolveConstraints(ids)
          /\ loads \in SolveLoads(ids)
    /\ \E e \in SolveModuli : materials = MapInsert(EmptyMap, 0, SolveMaterial(e))
    /\ settings \in [solver_type : SolveSolverTypes]
    /\ pc = "validate"
    /\ k = None /\ f = None /\ displacements = None /\ reactions = None
    /\ stages = <<>>
    /\ outcome = None

SpecSolve == InitSolve /\ [][NextSolve]_vars

(***************************************************************************)
(* The numbering of elements against the numbering of loads and            *)
(* constraints.                                                            *)
(***************************************************************************)
\* the Dof behind each local index of a node of the element: trusses carry
\* translations only, the 2-D beam carries u, v and the rotation theta
carried_dofs(element) ==
    CASE element.element_type = "Truss2D" -> <<"Ux", "Uy">>
      [] element.element_type = "Truss3D" -> <<"Ux", "Uy", "Uz">>
      [] element.element_type = "Beam2D" -> <<"Ux", "Uy", "Rz">>
      [] OTHER -> <<>>

\* the index assembly gives to local DOF d (1-based) of the node at position
\* i of the element
ElementIndex(model, element, i, d) ==
    map_element_dofs_efficient(model, element, ExistingNodes(model, element))
        [(i - 1) * dofs_per_node(element) + d]

\* C1: for every node n and DOF d that an element of the model carries, the
\* index map_nodal_dof uses for a load or a constraint on (n, d) is the index
\* map_element_dofs_efficient gives DOF d of node n in stiffness assembly.
C1_OneNumberingScheme ==
    \A id \in DOMAIN elements :
        LET element == elements[id]
        IN  (\A i \in DOMAIN element.nodes : element.nodes[i] \in DOMAIN nodes)
            => \A i \in DOMAIN element.nodes, d \in DOMAIN carried_dofs(element) :
                  map_nodal_dof(element.nodes[i], carried_dofs(element)[d])
                      = ElementIndex(TheModel, element, i, d)

(***************************************************************************)
(* The stages of a static solve.                                           *)
(***************************************************************************)
IsPrefix(s, t) == Len(s) <= Len(t) /\ \A i \in DOMAIN s : s[i] = t[i]

\* the matrix holds element contributions only: it is what stiffness
\* assembly returns for the model, under some iteration order of the elements
OnlyElementContributions ==
    \E order \in Orderings(Cardinality(DOMAIN elements)) :
        k = {assembled.val : assembled \in
                {r \in {assemble_stiffness_matrix(TheModel, ElementOrder(order))} : r.ok}}

\* C2: the stages run in the fixed order; no penalty term is in the matrix
\* before the constraint stage, which follows the whole of assembly; a run
\* that fails ends with a typed error, after the failing stage, without
\* AnalysisResults.
C2_StagesInOrderFailFast ==
    /\ IsPrefix(stages, StageOrder)
    /\ "apply_constraints" \notin Range(stages) => (k = None \/ OnlyElementContributions)
    /\ "assemble_stiffness" \notin Range(stages) => k = None
    /\ (pc = "done") = (outcome # None)
    /\ pc # "done" => pc = StageOrder[Len(stages) + 1]
    /\ \A o \in outcome :
          \/ o.status = "Ok" /\ stages = StageOrder /\ o.results # None
          \/ o.status = "Err" /\ Len(stages) < Len(StageOrder) /\ o.results = None

(***************************************************************************)
(* The closed-form check of the axial truss.                               *)
(***************************************************************************)
\* a small relative tolerance
RelTol == <<1, 100>>

\* |a - b| <= RelTol * |b|
WithinRelTol(a, b) == ~FLt(FMul(RelTol, FAbs(b)), FAbs(FSub(a, b)))

\* the model is one Truss2D element along the x axis, fixed at its first
\* node and loaded along x at its second
IsAxialTruss ==
    /\ DOMAIN elements = {0}
    /\ elements[0].element_type = "Truss2D"
    /\ elements[0].area # None
    /\ Len(elements[0].nodes) = 2
    /\ \A i \in 1..2 : elements[0].nodes[i] \in DOMAIN nodes
    /\ LET base == nodes[elements[0].nodes[1]]
           tip == nodes[elements[0].nodes[2]]
       IN  /\ tip.x > base.x /\ tip.y = base.y /\ tip.z = base.z
           /\ constraints = <<fixed_support(base.id)>>
           /\ Len(loads) = 1
           /\ loads[1].load_type = "NodalForce"
           /\ loads[1].node_id = tip.id /\ loads[1].dof = "Ux"

TrussLength == nodes[elements[0].nodes[2]].x - nodes[elements[0].nodes[1]].x

TrussEA == FMul(R(Unwrap(materials[0].young_modulus)), R(Unwrap(elements[0].area)))

\* the solve of an axial truss returned results
AxialTrussSolved ==
    IsAxialTruss /\ pc = "done" /\ \E o \in outcome : o.status = "Ok"

\* C3: for the single axial Truss2D element of any length L > 0, fixed at
\* one end and loaded by the axial tip force P, the stiffness coupling the
\* end nodes is E*A/L and the solved tip displacement is P*L/(A*E).
C3_AxialTrussClosedForm ==
    AxialTrussSolved =>
        LET base_dof == ElementIndex(TheModel, elements[0], 1, 1)
            tip_dof == ElementIndex(TheModel, elements[0], 2, 1)
            u == Unwrap(Unwrap(outcome).results).displacements
            P == FMul(R(loads[1].magnitude), R(loads[1].factor))
        IN  /\ FNeg(Unwrap(k).a[<<base_dof, tip_dof>>]) = FDiv(TrussEA, R(TrussLength))
            /\ WithinRelTol(u[tip_dof], FDiv(FMul(P, R(TrussLength)), TrussEA))

\* the same check holds where the length is one
C3_UnitLengthHolds ==
    (AxialTrussSolved /\ TrussLength = 1) =>
        LET tip_dof == ElementIndex(TheModel, elements[0], 2, 1)
            u == Unwrap(Unwrap(outcome).results).displacements
            P == FMul(R(loads[1].magnitude), R(loads[1].factor))
        IN  /\ FNeg(Unwrap(k).a[<<0, tip_dof>>]) = TrussEA
            /\ WithinRelTol(u[tip_dof], FDiv(P, TrussEA))

(***************************************************************************)
(* elements.rs: the consistent mass matrices.                              *)
(***************************************************************************)
\* the shared head of the mass_matrix methods: area, density, nodes[0] and
\* nodes[1] (an index past the slice panics)
MassInputs(element, material, element_nodes) ==
    IF IsNone(element.area) THEN Err("InvalidMaterial")
    ELSE IF IsNone(material.density) THEN Err("InvalidMaterial")
    ELSE IF Len(element_nodes) < 2 THEN Err("panic")
    ELSE Ok(FMul(R(Unwrap(material.density)), R(Unwrap(element.area))))

Truss2D_mass_matrix(element, material, element_nodes) ==
    Only({IF ~density_area.ok THEN density_area ELSE
    Only({Ok(MatOf(4, {<<0, 0, third>>, <<0, 2, sixth>>, <<1, 1, third>>, <<1, 3, sixth>>,
                       <<2, 0, sixth>>, <<2, 2, third>>, <<3, 1, sixth>>, <<3, 3, third>>}))
          : third \in {FDiv(FMul(density_area.val, R(ElementLength(element_nodes, FALSE))),
                            R(3))},
            sixth \in {FDiv(FMul(density_area.val, R(ElementLength(element_nodes, FALSE))),
                            R(6))}})
          : density_area \in {MassInputs(element, material, element_nodes)}})

Truss3D_mass_matrix(element, material, element_nodes) ==
    Only({IF ~density_area.ok THEN density_area ELSE
    Only({Ok(MatOf(6, {<<i, i, third>> : i \in 0..5}
                      \cup {<<i, i + 3, sixth>> : i \in 0..2}
                      \cup {<<i + 3, i, sixth>> : i \in 0..2}))
          : third \in {FDiv(FMul(density_area.val, R(ElementLength(element_nodes, TRUE))),
                            R(3))},
            sixth \in {FDiv(FMul(density_area.val, R(ElementLength(element_nodes, TRUE))),
                            R(6))}})
          : density_area \in {MassInputs(element, material, element_nodes)}})

Beam2D_mass_matrix(element, material, element_nodes) ==
    Only({IF ~density_area.ok THEN density_area ELSE
    Only({
    Only({Ok(MatOf(6, {<<0, 0, m[1]>>, <<0, 3, m[2]>>, <<3, 0, m[2]>>, <<3, 3, m[1]>>,
                       <<1, 1, m[3]>>, <<1, 2, m[5]>>, <<1, 4, m[4]>>, <<1, 5, FNeg(m[6])>>,
                       <<2, 1, m[5]>>, <<2, 2, m[7]>>, <<2, 4, m[6]>>, <<2, 5, FNeg(m[8])>>,
                       <<4, 1, m[4]>>, <<4, 2, m[6]>>, <<4, 4, m[3]>>, <<4, 5, FNeg(m[5])>>,
                       <<5, 1, FNeg(m[6])>>, <<5, 2, FNeg(m[8])>>, <<5, 4, FNeg(m[5])>>,
                       <<5, 5, m[7]>>}))
          \* total_mass/3, /6, 13 total_mass/35, 9 total_mass/70, 11 total_mass l/210,
          \* 13 total_mass l/420, total_mass l l/105, total_mass l l/140
          : m \in {<<FDiv(total_mass, R(3)), FDiv(total_mass, R(6)),
                     FDiv(FMul(R(13), total_mass), R(35)),
                     FDiv(FMul(R(9), total_mass), R(70)),
                     FDiv(FMul(FMul(R(11), total_mass), l), R(210)),
                     FDiv(FMul(FMul(R(13), total_mass), l), R(420)),
                     FDiv(FMul(FMul(total_mass, l), l), R(105)),
                     FDiv(FMul(FMul(total_mass, l), l), R(140))>>}})
          : total_mass \in {FMul(density_area.val, R(ElementLength(element_nodes, FALSE)))},
            l \in {R(ElementLength(element_nodes, FALSE))}})
          : density_area \in {MassInputs(element, material, element_nodes)}})

\* ElementFactory::compute_mass_matrix
compute_mass_matrix(element, material, element_nodes) ==
    CASE element.element_type = "Truss2D" -> Truss2D_mass_matrix(element, material, element_nodes)
      [] element.element_type = "Truss3D" -> Truss3D_mass_matrix(element, material, element_nodes)
      [] element.element_type \in {"Beam2D", "Frame2D"} ->
             Beam2D_mass_matrix(element, material, element_nodes)
      [] element.element_type \in {"Plate", "Shell", "Solid"} -> Err("UnsupportedElement")

(***************************************************************************)
(* solvers.rs: ModalSolver, TimeHistorySolver and AnalysisRunner.          *)
(***************************************************************************)
AnalysisTypes == {"Static", "Modal", "TimeHistory", "Buckling", "NonlinearStatic"}

\* Model::total_dofs
model_total_dofs(model) == Cardinality(DOMAIN model.nodes) * 6

\* ModalSolver::map_element_dofs: six slots per node id
modal_map_element_dofs(element, element_nodes) ==
    [t \in 1..(Len(element_nodes) * dofs_per_node(element)) |->
        element_nodes[((t - 1) \div dofs_per_node(element)) + 1].id * 6
            + ((t - 1) % dofs_per_node(element))]

RECURSIVE CollectMassMatrices(_, _, _)
\* the loop of assemble_mass_matrix over the elements order[1..upto]
CollectMassMatrices(model, order, upto) ==
    IF upto = 0 THEN Ok(<<>>)
    ELSE Only({
         IF ~before.ok THEN before
         ELSE IF \E i \in DOMAIN element.nodes : element.nodes[i] \notin DOMAIN model.nodes
         THEN Err("InvalidNodeId")
         ELSE IF element.material_id \notin DOMAIN model.materials
         THEN Err("ValidationError")
         ELSE Only({IF ~m_elem.ok THEN m_elem
                    ELSE Ok(Append(before.val,
                                   [dofs |-> modal_map_element_dofs(
                                                 element, ExistingNodes(model, element)),
                                    k |-> m_elem.val]))
                    : m_elem \in {compute_mass_matrix(
                                      element, model.materials[element.material_id],
                                      ExistingNodes(model, element))}})
         : before \in {CollectMassMatrices(model, order, upto - 1)},
           element \in {model.elements[order[upto]]}})

assemble_mass_matrix(model, order) ==
    Only({IF ~element_matrices.ok THEN element_matrices
          ELSE assemble_global_stiffness(element_matrices.val, model_total_dofs(model))
          : element_matrices \in {CollectMassMatrices(model, order, Len(order))}})

\* mutant: the density check is left out
modal_validate_model_NoDensityCheck(model) == Ok("valid")

\* ModalSolver::validate_model: every material has a density
modal_validate_model(model) ==
    IF \E id \in DOMAIN model.materials : IsNone(model.materials[id].density)
    THEN Err("ValidationError")
    ELSE Ok("valid")

eigensolve_symmetric(a) == IF ~is_symmetric(a) THEN Err("MatrixError") ELSE Ok([eigen_of |-> a])

\* the frequencies sqrt(lambda) / 2 pi of the eigenvalues, kept as the
\* decomposition they are read from
modal_results(eigen) ==
    [displacements |-> [frequencies_of |-> eigen],
     reactions |-> VecZeros(eigen.eigen_of.nrows),
     strain_energy |-> Zero,
     analysis_type |-> "Modal",
     convergence_info |-> [iterations |-> 1, converged |-> TRUE, residual_norm_sq |-> Zero]]

\* ModalSolver::solve; the matrices of the model stay below the row count
\* at which eigensolve_subset takes over
modal_solve(model, order) ==
    Only({IF ~valid.ok THEN Failure(valid) ELSE
    Only({IF ~k0.ok THEN Failure(k0) ELSE
    Only({IF ~m0.ok THEN Failure(m0) ELSE
    Only({IF ~eigen.ok THEN Failure(eigen) ELSE Success(modal_results(eigen.val))
          : eigen \in {eigensolve_symmetric(k0.val)}})
          : m0 \in {assemble_mass_matrix(model, order)}})
          : k0 \in {assemble_stiffness_matrix(model, order)}})
          : valid \in {modal_validate_model(model)}})

\* TimeHistorySolver::solve: not implemented, the model is not looked at
time_history_solve(model) == Failure(Err("UnsupportedElement"))

\* mutant: the time-history tag is served by the static solver
run_analysis_TimeHistoryAsStatic(model, analysis_type, order) ==
    CASE analysis_type \in {"Static", "TimeHistory"} -> static_solve(model, "Direct", order)
      [] analysis_type = "Modal" -> modal_solve(model, order)
      [] OTHER -> Failure(Err("UnsupportedElement"))

\* AnalysisRunner::run_analysis; StaticSolver::new() has the default settings
run_analysis(model, analysis_type, order) ==
    CASE analysis_type = "Static" -> static_solve(model, "Direct", order)
      [] analysis_type = "Modal" -> modal_solve(model, order)
      [] analysis_type = "TimeHistory" -> time_history_solve(model)
      [] OTHER -> Failure(Err("UnsupportedElement"))

\* mutant: a failing analysis is skipped and the loop goes on
run_multiple_step_SkipFailure(call, result) ==
    IF result.status = "Ok"
    THEN [call EXCEPT !.results = Append(@, Unwrap(result.results)),
                      !.ran = Append(@, call.analyses[call.next]),
                      !.next = @ + 1]
    ELSE [call EXCEPT !.ran = Append(@, call.analyses[call.next]), !.next = @ + 1]

\* one pass of the loop of run_multiple_analyses: `result` is what
\* run_analysis returned for analyses[next]; `?` returns its error at once
run_multiple_step(call, result) ==
    IF result.status = "Ok"
    THEN [call EXCEPT !.results = Append(@, Unwrap(result.results)),
                      !.ran = Append(@, call.analyses[call.next]),
                      !.next = @ + 1]
    ELSE [call EXCEPT !.ran = Append(@, call.analyses[call.next]),
                      !.phase = "done",
                      !.outcome = Some([status |-> result.status, error |-> result.error,
                                        results |-> None])]

(***************************************************************************)
(* Calls of AnalysisRunner.  run holds the call: which function, the       *)
(* requested analysis types, the loop position (next), the types run so    *)
(* far (ran), the results collected and what the call returned (outcome).  *)
(***************************************************************************)
MaxAnalyses == 2

\* the sequences of at most n analysis types
AnalysisLists(n) == UNION {[1..len -> AnalysisTypes] : len \in 0..n}

RunNodeIds == {<<0, 1>>, <<0, 2>>}

RunElementTypes == {"Truss2D", "Plate"}

RunDensities == {None, Some(1)}

RunCall(function, analyses) ==
    [phase |-> "called", function |-> function, analyses |-> analyses, next |-> 1,
     ran |-> <<>>, results |-> <<>>, outcome |-> None]

InitRun ==
    /\ NoAssembly /\ NoCG /\ NoSolve /\ NoDyn /\ NoDaemon /\ NoNumbering /\ NoCall
    /\ last_op = [op |-> "new", arg |-> 0, result |-> "Ok"]
    /\ \E ids \in RunNodeIds :
          /\ nodes = SolveNodes(ids, <<1, 0, 0>>)
          /\ \E element_type \in RunElementTypes :
                elements = MapInsert(EmptyMap, 0, SolveElement(ids, element_type, Some(2)))
          /\ constraints \in {<<>>, <<fixed_support(ids[1])>>}
          /\ loads = <<nodal_force(ids[2], "Ux", 3)>>
    /\ \E density \in RunDensities :
          materials = MapInsert(EmptyMap, 0, [SolveMaterial(3) EXCEPT !.density = density])
    /\ \/ \E analysis_type \in AnalysisTypes : run = RunCall("run_analysis", <<analysis_type>>)
       \/ \E analyses \in AnalysisLists(MaxAnalyses) :
             run = RunCall("run_multiple_analyses", analyses)

\* a call of run_analysis returns
RunAnalysis ==
    /\ run.phase = "called" /\ run.function = "run_analysis"
    /\ \E order \in Orderings(Cardinality(DOMAIN elements)) :
       \E result \in {run_analysis(TheModel, run.analyses[1], ElementOrder(order))} :
          run' = [run EXCEPT !.phase = "done", !.ran = run.analyses, !.outcome = Some(result)]
    /\ UNCHANGED <<model_vars, last_op, asm, cg, solve_vars, dyn, daemon, numbering, invocation>>

\* the loop of run_multiple_analyses takes the next analysis type
RunNextAnalysis ==
    /\ run.phase = "called" /\ run.function = "run_multiple_analyses"
    /\ run.next <= Len(run.analyses)
    /\ \E order \in Orderings(Cardinality(DOMAIN elements)) :
       \E result \in {run_analysis(TheModel, run.analyses[run.next], ElementOrder(order))} :
          run' = run_multiple_step(run, result)
    /\ UNCHANGED <<model_vars, last_op, asm, cg, solve_vars, dyn, daemon, numbering, invocation>>

\* the loop is over: Ok(results)
RunReturnResults ==
    /\ run.phase = "called" /\ run.function = "run_multiple_analyses"
    /\ run.next > Len(run.analyses)
    /\ run' = [run EXCEPT !.phase = "done",
                          !.outcome = Some([status |-> "Ok", error |-> "none",
                                            results |-> Some(run.results)])]
    /\ UNCHANGED <<model_vars, last_op, asm, cg, solve_vars, dyn, daemon, numbering, invocation>>

NextRun == RunAnalysis \/ RunNextAnalysis \/ RunReturnResults

SpecRun == InitRun /\ [][NextRun]_vars

\* what run_analysis gives for the model and the type; the models have one
\* element, so one iteration order
Analysed(analysis_type) == run_analysis(TheModel, analysis_type, ElementOrder(<<1>>))

RunAnalysisReturned == run.phase = "done" /\ run.function = "run_analysis"

\* C9: run_analysis returns results only for Static and Modal; for
\* TimeHistory, Buckling and NonlinearStatic it returns an error and no
\* results, whatever the model.
C9_OnlyStaticAndModalReturnResults ==
    RunAnalysisReturned =>
        \A o \in run.outcome :
            /\ o.status = "Ok" => run.analyses[1] \in {"Static", "Modal"}
            /\ run.analyses[1] \in {"TimeHistory", "Buckling", "NonlinearStatic"}
                  => o.status = "Err" /\ o.results = None

\* a time-history request on a model the static and modal solvers accept
C9_Witness ==
    /\ RunAnalysisReturned
    /\ run.analyses = <<"TimeHistory">>
    /\ Unwrap(run.outcome).status = "Err"
    /\ \A analysis_type \in {"Static", "Modal"} : Analysed(analysis_type).status = "Ok"

\* the state of the call agrees with running the types in list order
RunInListOrder ==
    /\ IsPrefix(run.ran, run.analyses)
    /\ run.phase = "called" =>
          /\ Len(run.ran) = run.next - 1
          /\ Len(run.results) = Len(run.ran)
          /\ run.outcome = None
    /\ \A i \in DOMAIN run.results :
          Success(run.results[i]) = Analysed(run.analyses[i])

RunMultipleReturned == run.phase = "done" /\ run.function = "run_multiple_analyses"

\* Ok: one result per requested type, in the order of the request
AllResultsInOrder(o) ==
    /\ o.status = "Ok"
    /\ run.ran = run.analyses
    /\ o.results = Some(run.results)
    /\ Len(run.results) = Len(run.analyses)

\* not Ok: what the first failing analysis gave, nothing run after it and no
\* result handed back
FirstFailureOnly(o) ==
    /\ o.status # "Ok"
    /\ run.ran # <<>>
    /\ Len(run.results) = Len(run.ran) - 1
    /\ o = Analysed(run.analyses[Len(run.ran)])

RunMultipleSafe ==
    run.function = "run_multiple_analyses" =>
        /\ RunInListOrder
        /\ RunMultipleReturned => \A o \in run.outcome : AllResultsInOrder(o) \/ FirstFailureOnly(o)
        /\ RunMultipleReturned => run.outcome # None

LineElementTypes == {"Truss2D", "Truss3D", "Beam2D", "Frame2D", "Beam3D", "Frame3D"}

\* a 2-node line element whose two nodes are at the same point
IsCoincident(element) ==
    /\ element.element_type \in LineElementTypes
    /\ Len(element.nodes) = 2
    /\ \A i \in 1..2 : element.nodes[i] \in DOMAIN nodes
    /\ LET n1 == nodes[element.nodes[1]]
           n2 == nodes[element.nodes[2]]
       IN  n1.x = n2.x /\ n1.y = n2.y /\ n1.z = n2.z

HasCoincidentElement == \E id \in DOMAIN elements : IsCoincident(elements[id])

\* the element carries what its stiffness formulation reads before the
\* geometry is looked at
HasSectionProperties(element) ==
    /\ IsSome(element.area)
    /\ element.element_type \in {"Beam2D", "Frame2D"} => IsSome(element.inertia_z)
    /\ IsSome(materials[element.material_id].young_modulus)

SolveReturnedResults == pc = "done" /\ Unwrap(outcome).status = "Ok"

ReturnedDisplacements == Unwrap(Unwrap(outcome).results).displacements

AllLoadsZero == \A i \in DOMAIN loads : loads[i].magnitude = 0

IsZeroVector(v) == \A i \in DOMAIN v : v[i] = Zero

\* every value a nodal constraint prescribes is zero
AllPrescribedZero ==
    \A i \in DOMAIN constraints :
        \A j \in DOMAIN constraints[i].constraints : constraints[i].constraints[j][2] = 0

\* C12: a static solve in which every load has zero magnitude (or there are
\* no loads) returns the zero displacement vector, whatever boundary
\* conditions the model accepts.
C12_ZeroLoadZeroDisplacement ==
    (SolveReturnedResults /\ AllLoadsZero) => IsZeroVector(ReturnedDisplacements)

\* C12 as amended: a static solve in which every load has zero magnitude (or
\* there are no loads) and every boundary condition prescribes the value
\* zero returns the zero displacement vector.
C12_ZeroLoadHomogeneousSupports ==
    (SolveReturnedResults /\ AllLoadsZero /\ AllPrescribedZero)
        => IsZeroVector(ReturnedDisplacements)

C12_Witness ==
    /\ SolveReturnedResults
    /\ loads # <<>> /\ AllLoadsZero
    /\ AllPrescribedZero
    /\ IsZeroVector(ReturnedDisplacements)
    /\ \E i \in DOMAIN Unwrap(k).a : Unwrap(k).a[i] # Zero

(***************************************************************************)
(* Strain energy of the returned results.                                  *)
(***************************************************************************)
\* C13: the strain_energy field of the results of a successful static solve
\* equals 1/2 u^t K u for the returned displacements u and the stiffness
\* matrix K of the same solve.
C13_StrainEnergyConsistent ==
    SolveReturnedResults =>
        Unwrap(Unwrap(outcome).results).strain_energy
            = strain_energy(Unwrap(k), ReturnedDisplacements)

(***************************************************************************)
(* A penalty constraint applied more than once.                            *)
(***************************************************************************)
\* the accuracy of the penalty method: the distance a penalised DOF keeps
\* from its prescribed value (the force it carries over the penalty
\* stiffness) stays below this for the loads of the model
PenaltyTol == <<1, 100>>

WithinPenaltyTol(a, b) == ~FLt(PenaltyTol, FAbs(FSub(a, b)))

\* the constraint list without the repetitions of a constraint
DistinctConstraints(cs) ==
    LET keep == {i \in DOMAIN cs : \A j \in 1..(i - 1) : cs[j] # cs[i]}
    IN  [n \in 1..Cardinality(keep) |->
            cs[CHOOSE i \in keep : Cardinality({j \in keep : j < i}) = n - 1]]

HasRepeatedConstraint == DistinctConstraints(constraints) # constraints

\* the entries of the nodal constraints that became penalty pairs
AppliedEntries == AppliedConstraintEntries(TheModel, Unwrap(k))

\* how many penalty pairs were applied to the global DOF d
TimesApplied(d) ==
    Cardinality({i \in DOMAIN AppliedEntries :
                    map_nodal_dof(AppliedEntries[i].node_id, AppliedEntries[i].dof) = d})

\* K and f of the solve before any constraint was enforced
UnconstrainedK == assemble_stiffness_matrix(TheModel, ElementOrder(<<1>>)).val

UnconstrainedF == assemble_load_vector(TheModel).val

\* the displacements of the solve of the same model with every constraint
\* listed once
SolvedOnce ==
    static_solve([TheModel EXCEPT !.constraints = DistinctConstraints(constraints)],
                 settings.solver_type, ElementOrder(<<1>>))

\* C14: when the same (DOF, value) penalty constraint is applied again to an
\* already constrained DOF, the load added at the DOF stays the prescribed
\* value times the penalty stiffness added there, and the solved
\* displacement at the DOF equals the prescribed value (to the accuracy of
\* the penalty method, and no further from it than with the constraint
\* applied once).
C14_ConstraintIdempotent ==
    (SolveReturnedResults /\ HasRepeatedConstraint) =>
        \A i \in DOMAIN AppliedEntries :
            LET d == map_nodal_dof(AppliedEntries[i].node_id, AppliedEntries[i].dof)
                value == R(AppliedEntries[i].value)
                added_k == FSub(Unwrap(k).a[<<d, d>>], UnconstrainedK.a[<<d, d>>])
                added_f == FSub(Unwrap(f)[d], UnconstrainedF[d])
            IN  /\ added_k = R(TimesApplied(d) * penalty_factor)
                /\ added_f = FMul(value, added_k)
                /\ WithinPenaltyTol(ReturnedDisplacements[d], value)
                /\ SolvedOnce.status = "Ok"
                /\ ~FLt(FAbs(FSub(Unwrap(SolvedOnce.results).displacements[d], value)),
                        FAbs(FSub(ReturnedDisplacements[d], value)))

C14_Witness ==
    /\ SolveReturnedResults
    /\ HasRepeatedConstraint
    /\ loads # <<>> /\ ~AllLoadsZero
    /\ \E i \in DOMAIN AppliedEntries :
          /\ AppliedEntries[i].value = 1
          /\ TimesApplied(map_nodal_dof(AppliedEntries[i].node_id, AppliedEntries[i].dof)) = 2
          /\ ReturnedDisplacements[map_nodal_dof(AppliedEntries[i].node_id,
                                                 AppliedEntries[i].dof)] # R(1)

(***************************************************************************)
(* A call of ModalSolver::solve or TimeHistorySolver::solve, one stage per *)
(* step.  dyn holds the solver, the stage about to run (pc), the locals k, *)
(* _m and the eigen-decomposition, the stages run so far and what the call *)
(* returned.                                                               *)
(***************************************************************************)
\* TimeHistorySolver::validate_model: every material has a density (a
\* missing time-dependent load is only a warning)
time_history_validate_model(model) ==
    IF \E id \in DOMAIN model.materials : IsNone(model.materials[id].density)
    THEN Err("ValidationError")
    ELSE Ok("valid")

DynCall(solver) ==
    [solver |-> solver, pc |-> IF solver = "Modal" THEN "validate" ELSE "solve",
     k |-> None, m |-> None, eigen |-> None, stages |-> <<>>, outcome |-> None]

\* the stage `stage` ran and gave `result`: on Ok go on to `next`, else return
DynStageDone(call, stage, result, next) ==
    IF result.ok
    THEN [call EXCEPT !.stages = Append(@, stage), !.pc = next]
    ELSE [call EXCEPT !.stages = Append(@, stage), !.pc = "done",
                      !.outcome = Some(Failure(result))]

ModalValidate ==
    /\ dyn.solver = "Modal" /\ dyn.pc = "validate"
    /\ dyn' = DynStageDone(dyn, "validate", modal_validate_model(TheModel),
                           "assemble_stiffness")
    /\ UNCHANGED <<model_vars, last_op, asm, cg, solve_vars, run, daemon, numbering, invocation>>

ModalAssembleStiffness ==
    /\ dyn.solver = "Modal" /\ dyn.pc = "assemble_stiffness"
    /\ \E order \in Orderings(Cardinality(DOMAIN elements)) :
       \E result \in {assemble_stiffness_matrix(TheModel, ElementOrder(order))} :
          dyn' = [DynStageDone(dyn, "assemble_stiffness", result, "assemble_mass")
                     EXCEPT !.k = IF result.ok THEN Some(result.val) ELSE @]
    /\ UNCHANGED <<model_vars, last_op, asm, cg, solve_vars, run, daemon, numbering, invocation>>

ModalAssembleMass ==
    /\ dyn.solver = "Modal" /\ dyn.pc = "assemble_mass"
    /\ \E order \in Orderings(Cardinality(DOMAIN elements)) :
       \E result \in {assemble_mass_matrix(TheModel, ElementOrder(order))} :
          dyn' = [DynStageDone(dyn, "assemble_mass", result, "eigensolve")
                     EXCEPT !.m = IF result.ok THEN Some(result.val) ELSE @]
    /\ UNCHANGED <<model_vars, last_op, asm, cg, solve_vars, run, daemon, numbering, invocation>>

ModalEigensolve ==
    /\ dyn.solver = "Modal" /\ dyn.pc = "eigensolve"
    /\ \E result \in {eigensolve_symmetric(Unwrap(dyn.k))} :
          dyn' = [DynStageDone(dyn, "eigensolve", result, "results")
                     EXCEPT !.eigen = IF result.ok THEN Some(result.val) ELSE @]
    /\ UNCHANGED <<model_vars, last_op, asm, cg, solve_vars, run, daemon, numbering, invocation>>

ModalPackageResults ==
    /\ dyn.solver = "Modal" /\ dyn.pc = "results"
    /\ dyn' = [dyn EXCEPT !.stages = Append(@, "results"), !.pc = "done",
                          !.outcome = Some(Success(modal_results(Unwrap(dyn.eigen))))]
    /\ UNCHANGED <<model_vars, last_op, asm, cg, solve_vars, run, daemon, numbering, invocation>>

\* TimeHistorySolver::solve: its whole body
TimeHistorySolve ==
    /\ dyn.solver = "TimeHistory" /\ dyn.pc = "solve"
    /\ dyn' = [dyn EXCEPT !.stages = Append(@, "solve"), !.pc = "done",
                          !.outcome = Some(time_history_solve(TheModel))]
    /\ UNCHANGED <<model_vars, last_op, asm, cg, solve_vars, run, daemon, numbering, invocation>>

NextDyn ==
    \/ ModalValidate \/ ModalAssembleStiffness \/ ModalAssembleMass
    \/ ModalEigensolve \/ ModalPackageResults \/ TimeHistorySolve

\* the material the element uses, and a second material no element uses
DynMaterials ==
    {MapInsert(EmptyMap, 0, [SolveMaterial(3) EXCEPT !.density = density]) : density \in RunDensities}
    \cup {MapInsert(MapInsert(EmptyMap, 0, [SolveMaterial(3) EXCEPT !.density = density]),
                    1, [SolveMaterial(1) EXCEPT !.id = 1, !.density = other])
          : density \in RunDensities, other \in RunDensities}

DynElementTypes == {"Truss2D", "Truss3D", "Beam2D", "Plate"}

InitDyn ==
    /\ NoAssembly /\ NoCG /\ NoSolve /\ NoRun /\ NoDaemon /\ NoNumbering /\ NoCall
    /\ last_op = [op |-> "new", arg |-> 0, result |-> "Ok"]
    /\ \E ids \in RunNodeIds :
          /\ nodes = SolveNodes(ids, <<1, 0, 0>>)
          /\ \E element_type \in DynElementTypes, area \in SolveAreas :
                elements = MapInsert(EmptyMap, 0, SolveElement(ids, element_type, area))
          /\ constraints \in {<<>>, <<fixed_support(ids[1])>>}
          /\ loads = <<nodal_force(ids[2], "Ux", 3)>>
    /\ materials \in DynMaterials
    /\ \E solver \in {"Modal", "TimeHistory"} : dyn = DynCall(solver)

SpecDyn == InitDyn /\ [][NextDyn]_vars

\* a material that an element of the model uses has no density
UsedMaterialLacksDensity ==
    \E id \in DOMAIN elements :
        /\ elements[id].material_id \in DOMAIN materials
        /\ IsNone(materials[elements[id].material_id].density)

\* C15: a modal solve of a model in which a material used by an element
\* has no density fails with a validation error, in the validation stage
\* and without any stiffness or mass matrix having been assembled.
C15_ModalRequiresDensity ==
    (dyn.solver = "Modal" /\ UsedMaterialLacksDensity) =>
        /\ dyn.k = None /\ dyn.m = None
        /\ dyn.pc \in {"validate", "done"}
        /\ dyn.pc = "done" =>
              /\ dyn.stages = <<"validate">>
              /\ Unwrap(dyn.outcome).status = "Err"
              /\ Unwrap(dyn.outcome).error = "ValidationError"
              /\ Unwrap(dyn.outcome).results = None

\* the solve failed on the density although the matrices of the model can
\* be assembled
C15_Witness ==
    /\ dyn.solver = "Modal" /\ dyn.pc = "done"
    /\ UsedMaterialLacksDensity
    /\ Unwrap(dyn.outcome).error = "ValidationError"
    /\ assemble_stiffness_matrix(TheModel, ElementOrder(<<1>>)).ok

\* C16: a time-history solve validates the model first and only then fails
\* as unimplemented: a model with a material lacking density is rejected
\* with the validation error, a model that passes validation with the
\* unsupported error, and in no case are results returned.
C16_TimeHistoryValidatesFirst ==
    (dyn.solver = "TimeHistory" /\ dyn.pc = "done") =>
        /\ Unwrap(dyn.outcome).status = "Err"
        /\ Unwrap(dyn.outcome).results = None
        /\ Unwrap(dyn.outcome).error =
              IF time_history_validate_model(TheModel).ok
              THEN "UnsupportedElement"
              ELSE time_history_validate_model(TheModel).err

(***************************************************************************)
(* Node coordinates.                                                       *)
(***************************************************************************)
\* f64::is_finite on a coordinate
coordinate_is_finite(c) == c \notin {NaN, Infinity, -Infinity}

\* C17: node validation rejects every node with a coordinate that is NaN or
\* an infinity, so a model built through add_node never holds a node with a
\* non-finite coordinate.
C17_NodeCoordinatesFinite ==
    /\ \A id \in DOMAIN nodes :
          /\ coordinate_is_finite(nodes[id].x)
          /\ coordinate_is_finite(nodes[id].y)
          /\ coordinate_is_finite(nodes[id].z)
    /\ (last_op.op = "add_node" /\ ~coordinate_is_finite(last_op.arg.x)) =>
           last_op.result = "ValidationError"

(***************************************************************************)
(* Material validation: add_material called with materials on and around   *)
(* the limits of the validity ranges.                                      *)
(***************************************************************************)
\* Young's modulus missing, zero, negative, positive; Poisson's ratio (in
\* tenths) missing, below -1, -1, inside, 0.5, above
ValidatedMaterials ==
    [id : {0, 1}, material_type : {"LinearElastic"},
     young_modulus : {None, Some(0), Some(-1), Some(2)},
     poisson_ratio : {None, Some(-11), Some(-10), Some(-9), Some(3), Some(4), Some(5), Some(6)},
     density : {None, Some(1)}]

NextMaterial == \E material \in ValidatedMaterials : add_material(material)

SpecMaterial == InitBuild /\ [][NextMaterial]_vars

\* Young's modulus > 0 and Poisson's ratio inside the open interval (-1, 0.5)
InValidRange(material) ==
    /\ IsSome(material.young_modulus) /\ Unwrap(material.young_modulus) > 0
    /\ IsSome(material.poisson_ratio)
    /\ -10 < Unwrap(material.poisson_ratio) /\ Unwrap(material.poisson_ratio) < 5

\* C18: a linear-elastic material is accepted (by validation, hence by
\* add_material) only if Young's modulus is > 0 and Poisson's ratio lies
\* strictly between -1 and 0.5; every other one is rejected with an
\* invalid-material error.
C18_MaterialRangesEnforced ==
    /\ \A id \in DOMAIN materials : InValidRange(materials[id])
    /\ (last_op.op = "add_material" /\ ~InValidRange(last_op.arg)) =>
           last_op.result = "InvalidMaterial"

(***************************************************************************)
(* daemon.rs: GazelleDaemon.  Every method takes the RwLock of the session *)
(* map for its whole body (write for create, run and delete, read for list *)
(* and get), so each call is one step.  daemon holds the configuration,    *)
(* the session map, the clock read by chrono::Utc::now(), the number of    *)
(* session ids generated so far and the last call with what it returned.   *)
(* Uuid::new_v4() gives an id never given before: the ids are 1, 2, ...    *)
(***************************************************************************)
\* cap on the number of sessions created in a run
MaxSessionIds == 2

\* cap on the clock (in units of the session timeout's minutes)
MaxTime == 1

\* DaemonConfig: the capacity and the timeout, scaled to the bounds
DaemonConfigs == [max_sessions : {1}, session_timeout_minutes : {1}]

\* the models of the requests: the two-node model without elements of the
\* daemon's own test, and a cantilever truss that solves
DaemonModels ==
    {[nodes |-> SolveNodes(<<0, 1>>, <<1, 0, 0>>), elements |-> EmptyMap,
      materials |-> EmptyMap, loads |-> <<>>, constraints |-> <<>>],
     [nodes |-> SolveNodes(<<0, 1>>, <<1, 0, 0>>),
      elements |-> MapInsert(EmptyMap, 0, SolveElement(<<0, 1>>, "Truss2D", Some(2))),
      materials |-> MapInsert(EmptyMap, 0, SolveMaterial(3)),
      loads |-> <<nodal_force(1, "Ux", 3)>>,
      constraints |-> <<fixed_support(0)>>]}

\* the element ids of a model in an iteration order (the models have at
\* most one element)
DaemonElementOrder(model) == IF DOMAIN model.elements = {} THEN <<>> ELSE <<0>>

\* Analysis::static_analysis and Analysis::modal_analysis on a clone of the
\* session's model: what the solver returns depends on the model alone
DaemonAnalysed ==
    [model \in DaemonModels, analysis_type \in {"Static", "Modal"} |->
        IF analysis_type = "Static"
        THEN static_solve(model, "Direct", DaemonElementOrder(model))
        ELSE modal_solve(model, DaemonElementOrder(model))]

Respond(d, op, arg, result) == [d EXCEPT !.last = [op |-> op, arg |-> arg, result |-> result]]

\* sessions.retain(|_, session| session.last_accessed > cutoff_time)
cleanup_old_sessions(d, sessions) ==
    LET cutoff_time == d.now - d.config.session_timeout_minutes
        retained == {id \in DOMAIN sessions : sessions[id].last_accessed > cutoff_time}
    IN  [id \in retained |-> sessions[id]]

create_session(d, model) ==
    LET session_id == d.issued + 1
        session == [id |-> session_id, model |-> model, static_results |-> None,
                    modal_results |-> None, created_at |-> d.now, last_accessed |-> d.now]
        sessions == IF Cardinality(DOMAIN d.sessions) >= d.config.max_sessions
                    THEN cleanup_old_sessions(d, d.sessions)
                    ELSE d.sessions
    IN  Respond([d EXCEPT !.sessions = MapInsert(sessions, session_id, session),
                          !.issued = session_id],
                "create_session", session_id, Ok(session_id))

\* GazelleDaemon::run_analysis; analysis_type is "Static" or "Modal"
daemon_run_analysis(d, session_id, analysis_type) ==
    IF session_id \notin DOMAIN d.sessions
    THEN Respond(d, "run_analysis", session_id, Err("NotFound"))
    ELSE Only({
         IF analysed.status = "Ok"
         THEN Respond([d EXCEPT !.sessions[session_id].last_accessed = d.now,
                                !.sessions[session_id].static_results =
                                    IF analysis_type = "Static" THEN analysed.results ELSE @,
                                !.sessions[session_id].modal_results =
                                    IF analysis_type = "Modal" THEN analysed.results ELSE @],
                      "run_analysis", session_id,
                      Ok([success |-> TRUE, results |-> analysed.results, error |-> None]))
         ELSE Respond([d EXCEPT !.sessions[session_id].last_accessed = d.now],
                      "run_analysis", session_id,
                      Ok([success |-> FALSE, results |-> None,
                          error |-> Some(analysed.error)]))
         : analysed \in {DaemonAnalysed[d.sessions[session_id].model, analysis_type]}})

\* the SessionInfo of every session; the order of sessions.values() is not kept
list_sessions(d) ==
    Respond(d, "list_sessions", 0,
            Ok({[id |-> d.sessions[id].id,
                 created_at |-> d.sessions[id].created_at,
                 last_accessed |-> d.sessions[id].last_accessed,
                 has_static_results |-> IsSome(d.sessions[id].static_results),
                 has_modal_results |-> IsSome(d.sessions[id].modal_results),
                 node_count |-> Cardinality(DOMAIN d.sessions[id].model.nodes),
                 element_count |-> Cardinality(DOMAIN d.sessions[id].model.elements)]
                : id \in DOMAIN d.sessions}))

get_session(d, session_id) ==
    IF session_id \in DOMAIN d.sessions
    THEN Respond(d, "get_session", session_id, Ok(d.sessions[session_id]))
    ELSE Respond(d, "get_session", session_id, Err("NotFound"))

\* mutant: the delete drops every session
delete_session_ClearsAll(d, session_id) ==
    IF session_id \in DOMAIN d.sessions
    THEN Respond([d EXCEPT !.sessions = EmptyMap], "delete_session", session_id, Ok("deleted"))
    ELSE Respond(d, "delete_session", session_id, Err("NotFound"))

delete_session(d, session_id) ==
    IF session_id \in DOMAIN d.sessions
    THEN Respond([d EXCEPT !.sessions = [id \in DOMAIN d.sessions \ {session_id} |->
                                           d.sessions[id]]],
                 "delete_session", session_id, Ok("deleted"))
    ELSE Respond(d, "delete_session", session_id, Err("NotFound"))

InitDaemon ==
    /\ NoModel /\ NoAssembly /\ NoCG /\ NoSolve /\ NoRun /\ NoDyn /\ NoNumbering /\ NoCall
    /\ \E config \in DaemonConfigs :
          daemon = [phase |-> "running", config |-> config, sessions |-> EmptyMap,
                    now |-> 0, issued |-> 0,
                    last |-> [op |-> "new", arg |-> 0, result |-> Ok("new")]]

CreateSession ==
    /\ daemon.issued < MaxSessionIds
    /\ \E model \in DaemonModels : daemon' = create_session(daemon, model)
    /\ UNCHANGED <<model_vars, last_op, asm, cg, solve_vars, run, dyn, numbering, invocation>>

DaemonRunAnalysis ==
    /\ \E session_id \in 1..MaxSessionIds, analysis_type \in {"Static", "Modal"} :
          daemon' = daemon_run_analysis(daemon, session_id, analysis_type)
    /\ UNCHANGED <<model_vars, last_op, asm, cg, solve_vars, run, dyn, numbering, invocation>>

ListSessions ==
    /\ daemon' = list_sessions(daemon)
    /\ UNCHANGED <<model_vars, last_op, asm, cg, solve_vars, run, dyn, numbering, invocation>>

GetSession ==
    /\ \E session_id \in 1..MaxSessionIds : daemon' = get_session(daemon, session_id)
    /\ UNCHANGED <<model_vars, last_op, asm, cg, solve_vars, run, dyn, numbering, invocation>>

DeleteSession ==
    /\ \E session_id \in 1..MaxSessionIds : daemon' = delete_session(daemon, session_id)
    /\ UNCHANGED <<model_vars, last_op, asm, cg, solve_vars, run, dyn, numbering, invocation>>

\* time passes between two calls
ClockTick ==
    /\ daemon.now < MaxTime
    /\ daemon' = Respond([daemon EXCEPT !.now = @ + 1], "none", 0, Ok("none"))
    /\ UNCHANGED <<model_vars, last_op, asm, cg, solve_vars, run, dyn, numbering, invocation>>

NextDaemon ==
    \/ CreateSession \/ DaemonRunAnalysis \/ ListSessions \/ GetSession
    \/ DeleteSession \/ ClockTick

SpecDaemon == InitDaemon /\ [][NextDaemon]_vars

\* the session was dropped by the timeout cleanup of a create_session at capacity
DroppedByCleanup(id) ==
    /\ daemon'.last.op = "create_session"
    /\ Cardinality(DOMAIN daemon.sessions) >= daemon.config.max_sessions
    /\ daemon.sessions[id].last_accessed <= daemon.now - daemon.config.session_timeout_minutes

\* one call of the daemon, seen from the sessions
SessionStep ==
    LET before == daemon.sessions
        after == daemon'.sessions
        op == daemon'.last.op
        arg == daemon'.last.arg
        result == daemon'.last.result
    IN  \* a session goes only by its own delete or by the cleanup
        /\ \A id \in DOMAIN before \ DOMAIN after :
              (op = "delete_session" /\ arg = id) \/ DroppedByCleanup(id)
        \* an id that is gone does not come back
        /\ \A id \in 1..daemon.issued : id \notin DOMAIN before => id \notin DOMAIN after
        \* the created session is in the map
        /\ op = "create_session" => arg \in DOMAIN after /\ arg \notin 1..daemon.issued
        \* list and get answer from the map and leave it alone
        /\ op = "list_sessions" =>
              /\ result.ok /\ {info.id : info \in result.val} = DOMAIN before
              /\ after = before
        /\ op = "get_session" =>
              /\ result = IF arg \in DOMAIN before THEN Ok(before[arg]) ELSE Err("NotFound")
              /\ after = before
        \* delete removes exactly the session named
        /\ op = "delete_session" =>
              IF arg \in DOMAIN before
              THEN /\ result.ok
                   /\ DOMAIN after = DOMAIN before \ {arg}
                   /\ \A id \in DOMAIN after : after[id] = before[id]
              ELSE result = Err("NotFound") /\ after = before
        \* run_analysis on an id that is not there
        /\ (op = "run_analysis" /\ arg \notin DOMAIN before) =>
              result = Err("NotFound") /\ after = before
        /\ (op = "run_analysis" /\ arg \in DOMAIN before) =>
              /\ result.ok /\ DOMAIN after = DOMAIN before
              /\ \A id \in DOMAIN after \ {arg} : after[id] = before[id]

\* C19: a session created by create_session stays listed by list_sessions
\* and retrievable by get_session until it is deleted or dropped by the
\* timeout cleanup; delete_session on an existing id removes exactly that
\* session and succeeds; afterwards the id is not listed, and get_session,
\* delete_session and run_analysis on it return NotFound and change no
\* other session.
C19_SessionLifecycle == [][SessionStep]_vars

\* a deleted id was asked for again while another session lives on
C19_Witness ==
    /\ daemon.last.op \in {"get_session", "run_analysis", "delete_session"}
    /\ daemon.last.arg \in 1..daemon.issued
    /\ daemon.last.arg \notin DOMAIN daemon.sessions
    /\ daemon.last.result = Err("NotFound")
    /\ DOMAIN daemon.sessions # {}
    /\ \E id \in DOMAIN daemon.sessions : IsSome(daemon.sessions[id].static_results)

(***************************************************************************)
(* DOF numbering.  StaticSolver::assemble_stiffness_matrix sizes the       *)
(* system with calculate_active_dofs and then maps every element with      *)
(* map_element_dofs_efficient.  numbering holds the dimension and the      *)
(* index vectors of the elements mapped so far; HashMap iteration order is *)
(* unspecified, so the next element is any one not yet mapped.  Neither    *)
(* function validates the model.                                           *)
(***************************************************************************)
NumberingNodeIds == {<<0, 1>>, <<0, 2>>}

\* the element families of a model: none, one, or two (mixed or alike)
NumberingElementTypes ==
    {<<>>} \cup {<<a>> : a \in ElementTypes} \cup (ElementTypes \X ElementTypes)

NumberingElement(id, element_type, ids) ==
    LET shape == [element_type |-> element_type]
    IN  [id |-> id, element_type |-> element_type,
         nodes |-> [i \in 1..expected_nodes(shape) |-> ids[((i - 1) % 2) + 1]],
         material_id |-> 0, area |-> Some(2), inertia_z |-> Some(1)]

\* no load, and a moment about z on the second node
NumberingLoads(ids) == {<<>>, <<nodal_force(ids[2], "Rz", 3)>>}

\* no constraint, and a fixed support of the first node
NumberingConstraints(ids) == {<<>>, <<fixed_support(ids[1])>>}

InitNumbering ==
    /\ NoAssembly /\ NoCG /\ NoSolve /\ NoRun /\ NoDyn /\ NoDaemon /\ NoCall
    /\ last_op = [op |-> "new", arg |-> 0, result |-> "Ok"]
    /\ \E ids \in NumberingNodeIds :
          /\ nodes = SolveNodes(ids, <<1, 0, 0>>)
          /\ \E types \in NumberingElementTypes :
                elements = [id \in 0..(Len(types) - 1) |->
                               NumberingElement(id, types[id + 1], ids)]
          /\ loads \in NumberingLoads(ids)
          /\ constraints \in NumberingConstraints(ids)
    /\ materials = MapInsert(EmptyMap, 0, SolveMaterial(1))
    /\ numbering = [pc |-> "size"]

\* let total_dofs = self.calculate_active_dofs(model)
SizeSystem ==
    /\ numbering.pc = "size"
    /\ numbering' = [pc |-> "map", total_dofs |-> calculate_active_dofs(TheModel),
                     global_dofs |-> <<>>]
    /\ UNCHANGED <<model_vars, last_op, asm, cg, solve_vars, run, dyn, daemon, invocation>>

\* one turn of the element loop: the nodes, then the global DOFs
MapElement ==
    /\ numbering.pc = "map"
    /\ \E id \in DOMAIN elements \ DOMAIN numbering.global_dofs :
          numbering' = [numbering EXCEPT !.global_dofs =
              MapInsert(@, id,
                  map_element_dofs_efficient(TheModel, elements[id],
                                             ExistingNodes(TheModel, elements[id])))]
    /\ UNCHANGED <<model_vars, last_op, asm, cg, solve_vars, run, dyn, daemon, invocation>>

\* the loop is over
MapDone ==
    /\ numbering.pc = "map"
    /\ DOMAIN elements = DOMAIN numbering.global_dofs
    /\ numbering' = [numbering EXCEPT !.pc = "done"]
    /\ UNCHANGED <<model_vars, last_op, asm, cg, solve_vars, run, dyn, daemon, invocation>>

NextNumbering == SizeSystem \/ MapElement \/ MapDone

SpecNumbering == InitNumbering /\ [][NextNumbering]_vars

\* the families the numbering policy calls 2-D
TwoDFamilies == ElementTypes \ {"Truss3D", "Beam3D", "Frame3D", "Shell", "Solid"}

\* every element is of a 2-D family with at most 3 DOFs per node
CompactPolicy ==
    \A id \in DOMAIN elements :
        elements[id].element_type \in TwoDFamilies /\ dofs_per_node(elements[id]) <= 3

\* the largest number of DOFs per node over the model's elements
ModelMaxDofs == SetMax({dofs_per_node(elements[id]) : id \in DOMAIN elements})

\* nodes per DOF block under the policy
PolicyStride == IF CompactPolicy THEN ModelMaxDofs ELSE 6

\* the indices the 6-per-node scheme gives to what the model refers to
SixPerNodeIndices ==
    UNION {{elements[id].nodes[i] * 6 + local_dof :
               i \in DOMAIN elements[id].nodes,
               local_dof \in 0..(dofs_per_node(elements[id]) - 1)}
           : id \in DOMAIN elements}
    \cup {loads[i].node_id * 6 + dof_offset(loads[i].dof) : i \in DOMAIN loads}
    \cup UNION {{constraints[i].node_id * 6 + dof_offset(constraints[i].constraints[j][1])
                    : j \in DOMAIN constraints[i].constraints}
                : i \in DOMAIN constraints}

\* the dimension that belongs to the scheme the policy selects
PolicyDimension ==
    IF CompactPolicy THEN Cardinality(DOMAIN nodes) * ModelMaxDofs
    ELSE SetMax(SixPerNodeIndices) + 1

\* C20: when every element of the model is of a 2-D family with at most 3
\* DOFs per node, local DOF k of node n gets global index n * (maximum DOFs
\* per node over the model's elements) + k; in every other model it gets
\* n * 6 + k; and the dimension computed by calculate_active_dofs is the one
\* of the same scheme.
C20_DofNumberingPolicy ==
    numbering.pc \in {"map", "done"} =>
        /\ numbering.total_dofs = PolicyDimension
        /\ \A id \in DOMAIN numbering.global_dofs :
              LET element == elements[id]
                  dpn == dofs_per_node(element)
              IN  /\ Len(numbering.global_dofs[id]) = Len(element.nodes) * dpn
                  /\ \A i \in DOMAIN element.nodes, local_dof \in 0..(dpn - 1) :
                        numbering.global_dofs[id][(i - 1) * dpn + local_dof + 1]
                            = element.nodes[i] * PolicyStride + local_dof

\* a truss and a beam in one plane model: the truss is numbered with the
\* beam's three DOFs per node
C20_Witness ==
    /\ numbering.pc = "done"
    /\ CompactPolicy
    /\ \E id \in DOMAIN elements :
          /\ elements[id].element_type = "Truss2D"
          /\ ModelMaxDofs = 3
          /\ \E t \in DOMAIN numbering.global_dofs[id] : numbering.global_dofs[id][t] = 4

(***************************************************************************)
(* MatrixOps::assemble_parallel.  par_iter().for_each hands every          *)
(* contribution to one of the pool's workers; the closure locks the mutex  *)
(* around the matrix, scatter-adds and drops the guard.  for_each returns  *)
(* when every contribution has been processed, and only then is the matrix *)
(* taken out of the Arc.  Equal contributions are interchangeable, so the  *)
(* list is held as its distinct contributions (kinds) and how many of each *)
(* are still to be taken.  asm holds the call.                             *)
(***************************************************************************)
ParWorkers == {1, 2}

\* the contribution that fills the list up to the threshold
ParFiller == [dofs |-> <<0, 1>>, k |-> SymMatrix2(2, -2, 2)]

\* the contributions that differ from the filler
ParVaried ==
    {[dofs |-> <<1, 2>>, k |-> SymMatrix2(3, -3, 3)],
     [dofs |-> <<1, 0>>, k |-> SymMatrix2(1, 0, 5)],
     [dofs |-> <<1, 1>>, k |-> SymMatrix2(1, -1, 1)]}

\* a list one longer than the threshold: the filler, then two others
ParList(kinds) ==
    [i \in 1..(parallel_threshold + 1) |->
        IF i < parallel_threshold THEN kinds[1]
        ELSE IF i = parallel_threshold THEN kinds[2] ELSE kinds[3]]

\* how often each kind is in the list
ParCount == [c \in 1..3 |-> IF c = 1 THEN parallel_threshold - 1 ELSE 1]

ParSpring == [dofs |-> <<1>>, k |-> Matrix1(7)]

InitParallel ==
    /\ NoModel /\ NoCG /\ NoSolve /\ NoRun /\ NoDyn /\ NoDaemon /\ NoNumbering /\ NoCall
    /\ \E varied \in ParVaried, n \in AsmNumDofs :
          asm = [phase |-> "parallel",
                 kinds |-> <<ParFiller, varied, ParSpring>>,
                 num_dofs |-> n,
                 pending |-> ParCount,
                 added |-> [c \in 1..3 |-> 0],
                 global_k |-> MatZeros(n, n),
                 lock |-> 0,
                 workers |-> [w \in ParWorkers |-> [pc |-> "idle", item |-> 0]],
                 result |-> None]

\* the pool gives worker w a contribution of kind c that nobody has taken
par_take(a, w, c) ==
    [a EXCEPT !.pending[c] = @ - 1, !.workers[w] = [pc |-> "lock", item |-> c]]

\* Mutex::lock blocks while another guard is alive
mutex_available_Always(a) == TRUE

mutex_available(a) == a.lock = 0

\* global_k.lock().unwrap()
mutex_lock(a, w) == [a EXCEPT !.lock = w, !.workers[w].pc = "locked"]

\* add_element_matrix under the guard, then the guard is dropped at the end
\* of the closure; an index outside the matrix panics with the guard held
par_scatter(a, w) ==
    LET em == a.kinds[a.workers[w].item]
    IN  IF ~ScatterInBounds(a.global_k, em.dofs)
        THEN [a EXCEPT !.phase = "panicked", !.result = Some(Err("panic"))]
        ELSE [a EXCEPT !.global_k = add_element_matrix(a.global_k, em.k, em.dofs),
                       !.added[a.workers[w].item] = @ + 1,
                       !.lock = 0,
                       !.workers[w] = [pc |-> "idle", item |-> 0]]

\* for_each has returned: Arc::try_unwrap(global_k).unwrap().into_inner().unwrap()
par_into_inner(a) == [a EXCEPT !.phase = "returned", !.result = Some(Ok(a.global_k))]

ParTake ==
    /\ asm.phase = "parallel"
    /\ \E w \in ParWorkers, c \in 1..3 :
          /\ asm.workers[w].pc = "idle"
          /\ asm.pending[c] > 0
          /\ asm' = par_take(asm, w, c)
    /\ UNCHANGED <<model_vars, last_op, cg, solve_vars, run, dyn, daemon, numbering, invocation>>

ParLock ==
    /\ asm.phase = "parallel"
    /\ \E w \in ParWorkers :
          /\ asm.workers[w].pc = "lock"
          /\ mutex_available(asm)
          /\ asm' = mutex_lock(asm, w)
    /\ UNCHANGED <<model_vars, last_op, cg, solve_vars, run, dyn, daemon, numbering, invocation>>

ParScatter ==
    /\ asm.phase = "parallel"
    /\ \E w \in ParWorkers :
          /\ asm.workers[w].pc = "locked"
          /\ asm' = par_scatter(asm, w)
    /\ UNCHANGED <<model_vars, last_op, cg, solve_vars, run, dyn, daemon, numbering, invocation>>

ParReturn ==
    /\ asm.phase = "parallel"
    /\ \A c \in 1..3 : asm.pending[c] = 0
    /\ \A w \in ParWorkers : asm.workers[w].pc = "idle"
    /\ asm' = par_into_inner(asm)
    /\ UNCHANGED <<model_vars, last_op, cg, solve_vars, run, dyn, daemon, numbering, invocation>>

NextParallel == ParTake \/ ParLock \/ ParScatter \/ ParReturn

SpecParallel == InitParallel /\ [][NextParallel]_vars

\* what the sequential loop of assemble_global_stiffness makes of the same
\* list, computed once for every input
RECURSIVE AssembleSeqRange(_, _, _, _)
\* the sequential loop over element_matrices[lo..hi-1], in list order,
\* starting from the matrix so far; the range is halved so that a long list
\* does not nest the evaluation as deep as the list is long
AssembleSeqRange(element_matrices, lo, hi, so_far) ==
    IF hi <= lo \/ ~so_far.ok THEN so_far
    ELSE IF hi = lo + 1
         THEN IF ~ScatterInBounds(so_far.val, element_matrices[lo].dofs) THEN Err("panic")
              ELSE Ok(add_element_matrix(so_far.val, element_matrices[lo].k,
                                         element_matrices[lo].dofs))
    ELSE Only({AssembleSeqRange(element_matrices, (lo + hi) \div 2, hi, first_half)
               : first_half \in {AssembleSeqRange(element_matrices, lo, (lo + hi) \div 2,
                                                  so_far)}})

ParSequential ==
    [varied \in ParVaried, n \in AsmNumDofs |->
        AssembleSeqRange(ParList(<<ParFiller, varied, ParSpring>>), 1, parallel_threshold + 2,
                         Ok(MatZeros(n, n)))]

ParHolders == {w \in ParWorkers : asm.workers[w].pc = "locked"}

\* the contributions of kind c that a worker has taken and not yet added
ParInFlight(c) == Cardinality({w \in ParWorkers : asm.workers[w].item = c})

\* C21: in parallel assembly (more than 100 contributions) at most one
\* worker at a time holds the lock on the shared matrix and scatter-adds;
\* every contribution is added exactly once; the matrix is handed back only
\* after all workers have finished; and for every interleaving the returned
\* matrix is the one sequential assembly produces from the same contributions.
C21_ParallelAssembly ==
    asm.phase \in {"parallel", "returned", "panicked"} =>
        /\ Len(ParList(asm.kinds)) > parallel_threshold
        /\ Cardinality(ParHolders) <= 1
        /\ \A w \in ParWorkers : asm.workers[w].pc = "locked" <=> asm.lock = w
        /\ \A c \in 1..3 :
              /\ asm.added[c] + ParInFlight(c) + asm.pending[c] = ParCount[c]
              /\ asm.added[c] <= ParCount[c]
        /\ asm.phase = "returned" =>
              /\ \A w \in ParWorkers : asm.workers[w].pc = "idle"
              /\ \A c \in 1..3 : asm.added[c] = ParCount[c]
              /\ Unwrap(asm.result) = ParSequential[asm.kinds[2], asm.num_dofs]
        /\ asm.phase = "panicked" =>
              Unwrap(asm.result) = ParSequential[asm.kinds[2], asm.num_dofs]
        /\ asm.phase = "parallel" => IsNone(asm.result)

\* two springs on one DOF, added by different workers after the other
\* worker had taken its contribution: the matrix came back complete
C21_Witness ==
    /\ asm.phase = "returned"
    /\ asm.kinds[2].dofs = <<1, 1>>
    /\ asm.num_dofs = 3
    /\ Unwrap(asm.result).ok
    /\ Unwrap(asm.result).val.a[<<1, 1>>] = R(2 * (parallel_threshold - 1) + 0 + 7)

(***************************************************************************)
(* One call of MatrixOps::apply_constraints(&mut k, &mut f, dofs, values). *)
(* k and f are changed in place: when the loop returns the error for a DOF *)
(* outside the matrix, the pairs before it have been applied already.      *)
(***************************************************************************)
MaxPairs == 2

\* a stiffness matrix of two bars in a row, and a matrix without stiffness
PenaltyMatrices ==
    {[nrows |-> 3, ncols |-> 3,
      a |-> [p \in (0..2) \X (0..2) |->
                IF p = <<0, 0>> THEN R(2) ELSE IF p = <<1, 1>> THEN R(5)
                ELSE IF p = <<2, 2>> THEN R(3)
                ELSE IF p \in {<<0, 1>>, <<1, 0>>} THEN R(-2)
                ELSE IF p \in {<<1, 2>>, <<2, 1>>} THEN R(-3) ELSE Zero]],
     MatZeros(3, 3)}

PenaltyLoads == {[i \in 0..2 |-> IF i = 2 THEN R(4) ELSE Zero]}

\* DOF 3 is outside the matrix
PenaltyDofLists == UNION {[1..n -> 0..3] : n \in 0..MaxPairs}

PenaltyValueLists == UNION {[1..n -> {R(0), R(1), R(-2)}] : n \in 0..MaxPairs}

\* the pairs the loop gets through before it returns
PairsApplied(km, constrained_dofs) ==
    IF \E i \in DOMAIN constrained_dofs : constrained_dofs[i] >= km.nrows
    THEN (CHOOSE i \in DOMAIN constrained_dofs :
             /\ constrained_dofs[i] >= km.nrows
             /\ \A j \in 1..(i - 1) : constrained_dofs[j] < km.nrows) - 1
    ELSE Len(constrained_dofs)

\* k and f as the call leaves them, and what it returns
apply_constraints_in_place(km, fv, constrained_dofs, prescribed_values) ==
    Only({IF returned.ok
          THEN [k |-> returned.val.k, f |-> returned.val.f, result |-> Ok("unit")]
          ELSE IF Len(constrained_dofs) # Len(prescribed_values)
          THEN [k |-> km, f |-> fv, result |-> returned]
          ELSE Only({[k |-> partial.val.k, f |-> partial.val.f, result |-> returned]
                     : partial \in {ApplyPenalties(km, fv, constrained_dofs,
                                                   prescribed_values,
                                                   PairsApplied(km, constrained_dofs))}})
          : returned \in {matrix_apply_constraints(km, fv, constrained_dofs,
                                                   prescribed_values)}})

InitPenalty ==
    /\ NoModel /\ NoAssembly /\ NoCG /\ NoSolve /\ NoRun /\ NoDyn /\ NoDaemon /\ NoNumbering
    /\ \E km \in PenaltyMatrices, fv \in PenaltyLoads,
          constrained_dofs \in PenaltyDofLists, prescribed_values \in PenaltyValueLists :
          invocation = [fn |-> "apply_constraints", phase |-> "called",
                        k |-> km, f |-> fv, constrained_dofs |-> constrained_dofs,
                        prescribed_values |-> prescribed_values,
                        k_after |-> km, f_after |-> fv, result |-> None]

PenaltyCall ==
    /\ invocation.fn = "apply_constraints" /\ invocation.phase = "called"
    /\ \E left \in {apply_constraints_in_place(invocation.k, invocation.f,
                                               invocation.constrained_dofs,
                                               invocation.prescribed_values)} :
          invocation' = [invocation EXCEPT !.phase = "returned", !.k_after = left.k,
                                           !.f_after = left.f,
                                           !.result = Some(left.result)]
    /\ UNCHANGED <<model_vars, last_op, asm, cg, solve_vars, run, dyn, daemon, numbering>>

NextPenalty == PenaltyCall

SpecPenalty == InitPenalty /\ [][NextPenalty]_vars

\* the pairs given for DOF d
PairsOn(d) == {i \in DOMAIN invocation.constrained_dofs : invocation.constrained_dofs[i] = d}

\* penalty * (sum of the prescribed values given for DOF d)
PenaltyLoadOn(d) ==
    LET RECURSIVE Sum(_)
        Sum(i) == IF i = 0 THEN Zero
                  ELSE IF invocation.constrained_dofs[i] = d
                       THEN FAdd(Sum(i - 1),
                                 FMul(R(penalty_factor), invocation.prescribed_values[i]))
                       ELSE Sum(i - 1)
    IN  Sum(Len(invocation.constrained_dofs))

\* C22: MatrixOps::apply_constraints, for each given (global DOF, prescribed
\* value) pair, adds the penalty to the diagonal entry K[dof, dof] and
\* penalty * value to f[dof]; it changes no other entry of K or f and does
\* not change the dimension of K or f.
C22_PenaltyFrame ==
    (invocation.fn = "apply_constraints" /\ invocation.phase = "returned") =>
        /\ invocation.k_after.nrows = invocation.k.nrows
        /\ invocation.k_after.ncols = invocation.k.ncols
        /\ DOMAIN invocation.k_after.a = DOMAIN invocation.k.a
        /\ DOMAIN invocation.f_after = DOMAIN invocation.f
        /\ \A p \in DOMAIN invocation.k.a :
              (p[1] # p[2] \/ PairsOn(p[1]) = {}) =>
                  invocation.k_after.a[p] = invocation.k.a[p]
        /\ \A d \in DOMAIN invocation.f :
              PairsOn(d) = {} => invocation.f_after[d] = invocation.f[d]
        /\ Unwrap(invocation.result).ok =>
              /\ \A d \in DOMAIN invocation.f :
                    /\ invocation.k_after.a[<<d, d>>] =
                          FAdd(invocation.k.a[<<d, d>>],
                               R(penalty_factor * Cardinality(PairsOn(d))))
                    /\ invocation.f_after[d] = FAdd(invocation.f[d], PenaltyLoadOn(d))

\* two pairs, one of them with a non-zero value, on a matrix with stiffness
C22_Witness ==
    /\ invocation.fn = "apply_constraints" /\ invocation.phase = "returned"
    /\ Unwrap(invocation.result).ok
    /\ invocation.constrained_dofs = <<0, 2>>
    /\ invocation.prescribed_values = <<R(0), R(1)>>
    /\ invocation.k.a[<<0, 0>>] = R(2)
    /\ invocation.k_after.a[<<0, 0>>] = R(2 + penalty_factor)
    /\ invocation.f_after[2] = R(4 + penalty_factor)

\* the DOFs that apply to the model's family
FamilyDofs ==
    IF CompactPolicy /\ ModelMaxDofs <= 2 THEN {"Ux", "Uy"}
    ELSE IF CompactPolicy /\ ModelMaxDofs <= 3 THEN {"Ux", "Uy", "Rz"}
    ELSE Dofs

\* the global index of (node, DOF) in the numbering scheme of the model: the
\* plane families carry Ux, Uy (and Rz) in this order
SchemeIndex(node_id, dof) ==
    IF CompactPolicy
    THEN node_id * ModelMaxDofs + (CASE dof = "Ux" -> 0 [] dof = "Uy" -> 1 [] OTHER -> 2)
    ELSE node_id * 6 + dof_offset(dof)

\* the global indices that some element touches
ElementTouched == get_active_dofs_for_constraints(TheModel)

\* the entry may become a penalty pair
Enforceable(en) ==
    /\ en.dof \in FamilyDofs
    /\ SchemeIndex(en.node_id, en.dof) \in ElementTouched
    /\ SchemeIndex(en.node_id, en.dof) < Unwrap(k).nrows

ConstraintsEnforced == pc \in {"condition_number", "solve", "reactions", "results"}

\* C23: during static constraint enforcement a nodal constraint entry
\* (node, DOF, value) becomes a penalty pair only if the DOF applies to the
\* model's family and its global index is one touched by some element and
\* inside the matrix; every other entry is skipped without an error.
C23_OnlyActiveDofsConstrained ==
    ConstraintsEnforced =>
        \A i \in DOMAIN AppliedEntries : Enforceable(AppliedEntries[i])

\* K and f after the explicit penalties, before the automatic pass
ExplicitSystem ==
    Only({matrix_apply_constraints(
              UnconstrainedK, UnconstrainedF,
              [i \in DOMAIN applied |-> map_nodal_dof(applied[i].node_id, applied[i].dof)],
              [i \in DOMAIN applied |-> R(applied[i].value)]).val
          : applied \in {AppliedConstraintEntries(TheModel, UnconstrainedK)}})

\* row i and column i of the matrix are zero
ZeroRowAndColumn(km, i) ==
    \A j \in 0..(km.ncols - 1) : km.a[<<i, j>>] = Zero /\ km.a[<<j, i>>] = Zero

\* a bar along x between nodes 0 and 1 whose only support is a prescribed
\* axial displacement of the base node: the transverse DOFs carry no
\* stiffness and no constraint
UnderConstrainedBar ==
    /\ DOMAIN elements = {0}
    /\ elements[0].element_type = "Truss2D"
    /\ elements[0].area # None
    /\ elements[0].nodes = <<0, 1>>
    /\ DOMAIN nodes = {0, 1}
    /\ nodes[1].x > nodes[0].x /\ nodes[1].y = nodes[0].y
    /\ constraints = <<prescribed_displacement(0, "Ux", 1)>>
    /\ \A i \in DOMAIN loads : loads[i].node_id \in DOMAIN nodes

\* C24: after static constraint enforcement (explicit penalties, then the
\* automatic pass) no DOF has an all-zero row and column: every DOF whose row
\* and column were zero after the explicit constraints has its diagonal set
\* to the penalty and its load entry set to zero, a DOF with any stiffness or
\* explicit penalty is not modified by the automatic pass, and an
\* under-constrained model with unconnected DOFs still solves.
C24_AutomaticConstraints ==
    /\ pc = "condition_number" =>
          \E explicit \in {ExplicitSystem} :
             \A i \in 0..(Unwrap(k).nrows - 1) :
                /\ ~ZeroRowAndColumn(Unwrap(k), i)
                /\ IF ZeroRowAndColumn(explicit.k, i)
                   THEN /\ Unwrap(k).a[<<i, i>>] = R(penalty_factor)
                        /\ Unwrap(f)[i] = Zero
                   ELSE /\ Unwrap(f)[i] = explicit.f[i]
                        /\ \A j \in 0..(Unwrap(k).ncols - 1) :
                              /\ Unwrap(k).a[<<i, j>>] = explicit.k.a[<<i, j>>]
                              /\ Unwrap(k).a[<<j, i>>] = explicit.k.a[<<j, i>>]
    /\ (pc = "done" /\ UnderConstrainedBar) => Unwrap(outcome).status = "Ok"

\* a loaded DOF without stiffness was pinned and the solve went through
C24_Witness ==
    /\ pc = "done" /\ UnderConstrainedBar
    /\ Unwrap(outcome).status = "Ok"
    /\ \E i \in 0..(Unwrap(k).nrows - 1) :
          /\ ZeroRowAndColumn(ExplicitSystem.k, i)
          /\ Unwrap(k).a[<<i, i>>] = R(penalty_factor)

(***************************************************************************)
(* One call of MatrixOps::solve_linear_system or MatrixOps::solve_iterative *)
(* seen as the methods it enters.  The numerical result is computed for    *)
(* the direct methods on the small matrices; for a matrix of about a       *)
(* thousand rows and for conjugate gradient (whose budget of a thousand    *)
(* iterations is followed in SpecCG) the model records the selection and   *)
(* the arguments handed over.                                              *)
(***************************************************************************)
\* the method solve_iterative hands the system to
iterative_method(a) ==
    IF is_symmetric(a) /\ is_positive_definite(a) THEN "conjugate_gradient" ELSE "lu"

\* the methods entered by solve_linear_system, in order, or the error of the
\* dimension checks
solve_linear_system_methods(a, b) ==
    IF a.nrows # a.ncols THEN Err("MatrixError")
    ELSE IF a.nrows # VecLen(b) THEN Err("MatrixError")
    ELSE Only({Ok(IF method = "iterative" THEN <<method, iterative_method(a)>>
                  ELSE <<method>>)
               : method \in {linear_solver_method(a)}})

\* the largest matrix whose solution is computed
MaxDirectRows == 3

\* a matrix of n rows: diagonal d, and one entry above it
LargeMatrix(n, d, upper) ==
    [nrows |-> n, ncols |-> n,
     a |-> [p \in (0..(n - 1)) \X (0..(n - 1)) |->
               IF p[1] = p[2] THEN R(d)
               ELSE IF p = <<0, 1>> THEN R(upper) ELSE Zero]]

\* the large matrices of the calls, each written as the arguments of
\* LargeMatrix: at the threshold and one row below it; symmetric with a positive
\* diagonal, symmetric with a zero diagonal, unsymmetric
LargeMatrices ==
    [nrows : {iterative_threshold - 1, iterative_threshold},
     diagonal_upper : {<<2, 0>>, <<0, 0>>, <<2, 1>>}]

\* the matrix a call was given: a small one is kept as it is, a large one as
\* the arguments of LargeMatrix
MatrixArgument(a) ==
    IF "diagonal_upper" \in DOMAIN a
    THEN LargeMatrix(a.nrows, a.diagonal_upper[1], a.diagonal_upper[2])
    ELSE a

LinearMatrices ==
    CGMatrices \cup {MatZeros(2, 3), MatZeros(3, 3), MatOf(3, {<<0, 0, R(2)>>,
                     <<1, 1, R(2)>>, <<2, 2, R(2)>>})}

LinearVectors == CGVectors \cup {[i \in 0..2 |-> R(1)]}

InitLinear ==
    /\ NoModel /\ NoAssembly /\ NoCG /\ NoSolve /\ NoRun /\ NoDyn /\ NoDaemon /\ NoNumbering
    /\ \E fn \in {"solve_linear_system", "solve_iterative"} :
          \/ \E a \in LinearMatrices, b \in LinearVectors :
                /\ fn = "solve_iterative" => (a.nrows = a.ncols /\ a.nrows = VecLen(b))
                /\ invocation = [fn |-> fn, phase |-> "called", a |-> a, b |-> b,
                                 methods |-> <<>>, cg |-> None, result |-> None]
          \/ \E a \in LargeMatrices :
                invocation = [fn |-> fn, phase |-> "called", a |-> a,
                              b |-> [i \in 0..(a.nrows - 1) |-> Zero],
                              methods |-> <<>>, cg |-> None, result |-> None]

\* the call, from the dimension checks to the method that solves
SolveLinearSystemCall ==
    /\ invocation.fn = "solve_linear_system" /\ invocation.phase = "called"
    /\ \E entered \in {solve_linear_system_methods(MatrixArgument(invocation.a),
                                                  invocation.b)} :
          invocation' =
              [invocation EXCEPT
                  !.phase = "returned",
                  !.methods = IF entered.ok THEN entered.val ELSE <<>>,
                  !.result = IF ~entered.ok THEN Some(entered)
                             ELSE IF invocation.a.nrows <= MaxDirectRows
                             THEN Some(solve_linear_system(MatrixArgument(invocation.a),
                                                           invocation.b))
                             ELSE None]
    /\ UNCHANGED <<model_vars, last_op, asm, cg, solve_vars, run, dyn, daemon, numbering>>

SolveIterativeCall ==
    /\ invocation.fn = "solve_iterative" /\ invocation.phase = "called"
    /\ \E method \in {iterative_method(MatrixArgument(invocation.a))} :
          invocation' =
              [invocation EXCEPT
                  !.phase = "returned",
                  !.methods = <<method>>,
                  !.cg = IF method = "conjugate_gradient"
                         THEN Some([tolerance |-> iterative_tolerance,
                                    max_iterations |-> iterative_max_iterations])
                         ELSE None,
                  !.result = IF method = "lu" /\ invocation.a.nrows <= MaxDirectRows
                             THEN Some(solve_lu(MatrixArgument(invocation.a), invocation.b))
                             ELSE None]
    /\ UNCHANGED <<model_vars, last_op, asm, cg, solve_vars, run, dyn, daemon, numbering>>

NextLinear == SolveLinearSystemCall \/ SolveIterativeCall

SpecLinear == InitLinear /\ [][NextLinear]_vars


SymmetricPositiveDefinite(a) == is_symmetric(a) /\ is_positive_definite(a)

\* C25: a returned call of solve_linear_system on non-square or size-mismatched
\* input entered no method and gave a matrix error; otherwise it entered
\* Cholesky alone for a symmetric matrix passing the positive-definiteness
\* check, LU alone for any other matrix below iterative_threshold rows, and for
\* any other matrix the iterative path followed by its LU fallback; a returned
\* call of solve_iterative entered conjugate gradient with tolerance 1e-10 and
\* 1000 iterations for a symmetric-positive-definite matrix and LU otherwise;
\* where the solution is computed it is the one of the method entered.
C25_MethodSelection ==
    (invocation.fn \in {"solve_linear_system", "solve_iterative"}
        /\ invocation.phase = "returned") =>
    IF invocation.fn = "solve_linear_system"
    THEN IF MatrixArgument(invocation.a).nrows # MatrixArgument(invocation.a).ncols
            \/ MatrixArgument(invocation.a).nrows # VecLen(invocation.b)
         THEN invocation.methods = <<>> /\ invocation.result = Some(Err("MatrixError"))
         ELSE IF SymmetricPositiveDefinite(MatrixArgument(invocation.a))
         THEN /\ invocation.methods = <<"cholesky">>
              /\ MatrixArgument(invocation.a).nrows <= MaxDirectRows =>
                    invocation.result =
                        Some(solve_cholesky(MatrixArgument(invocation.a), invocation.b))
         ELSE IF MatrixArgument(invocation.a).nrows < iterative_threshold
         THEN /\ invocation.methods = <<"lu">>
              /\ MatrixArgument(invocation.a).nrows <= MaxDirectRows =>
                    invocation.result =
                        Some(solve_lu(MatrixArgument(invocation.a), invocation.b))
         ELSE invocation.methods = <<"iterative", "lu">>
    ELSE IF SymmetricPositiveDefinite(MatrixArgument(invocation.a))
         THEN /\ invocation.methods = <<"conjugate_gradient">>
              /\ invocation.cg = Some([tolerance |-> iterative_tolerance,
                                       max_iterations |-> iterative_max_iterations])
         ELSE /\ invocation.methods = <<"lu">>
              /\ invocation.cg = None
              /\ MatrixArgument(invocation.a).nrows <= MaxDirectRows =>
                    invocation.result =
                        Some(solve_lu(MatrixArgument(invocation.a), invocation.b))

\* a symmetric matrix of a thousand rows with a zero diagonal went through the
\* iterative path to LU
C25_Witness ==
    /\ invocation.fn = "solve_linear_system" /\ invocation.phase = "returned"
    /\ MatrixArgument(invocation.a).nrows >= iterative_threshold
    /\ is_symmetric(MatrixArgument(invocation.a))
    /\ invocation.methods = <<"iterative", "lu">>


(***************************************************************************)
(* One call of StaticSolver::assemble_load_vector, on a model that got     *)
(* through validation and stiffness assembly, as solve calls it.           *)
(***************************************************************************)
LoadVectorElementTypes == {"Truss2D", "Truss3D", "Beam2D"}

factored(load, factor) == [load EXCEPT !.factor = factor]

\* a load of one of the variants that carry no node
other_load(load_type) == [load_type |-> load_type, factor |-> 1]

\* no load; one force; a force with a factor; two forces on one DOF; a moment;
\* a force on a node that is not in the model; every other variant alone; a
\* gravity load before a force; a force along z on the first node with a force
\* along x on the second
LoadVectorLoads(ids) ==
    {<<>>, <<nodal_force(ids[2], "Ux", 3)>>,
     <<factored(nodal_force(ids[1], "Uy", 3), 2)>>,
     <<nodal_force(ids[1], "Uy", 3), nodal_force(ids[1], "Uy", 1)>>,
     <<nodal_force(ids[2], "Rz", 3)>>,
     <<nodal_force(3, "Ux", 3)>>,
     <<other_load("Gravity"), nodal_force(ids[1], "Ux", 1)>>,
     <<nodal_force(ids[1], "Uz", 3), nodal_force(ids[2], "Ux", 2)>>}
    \cup {<<other_load(load_type)>>
             : load_type \in {"Distributed", "Pressure", "Thermal", "Gravity", "Seismic"}}

InitLoadVector ==
    /\ NoAssembly /\ NoCG /\ NoSolve /\ NoRun /\ NoDyn /\ NoDaemon /\ NoNumbering
    /\ last_op = [op |-> "new", arg |-> 0, result |-> "Ok"]
    /\ \E ids \in SolveNodeIds, element_type \in LoadVectorElementTypes :
          /\ nodes = SolveNodes(ids, <<2, 0, 0>>)
          /\ elements = MapInsert(EmptyMap, 0, SolveElement(ids, element_type, Some(2)))
          /\ constraints = <<fixed_support(ids[1])>>
          /\ loads \in LoadVectorLoads(ids)
    /\ materials = MapInsert(EmptyMap, 0, SolveMaterial(1))
    /\ static_validate_model(TheModel).ok
    /\ assemble_stiffness_matrix(TheModel, ElementOrder(<<1>>)).ok
    /\ invocation = [fn |-> "assemble_load_vector", phase |-> "called", result |-> None]

LoadVectorCall ==
    /\ invocation.fn = "assemble_load_vector" /\ invocation.phase = "called"
    /\ invocation' = [invocation EXCEPT !.phase = "returned",
                                        !.result = Some(assemble_load_vector(TheModel))]
    /\ UNCHANGED <<model_vars, last_op, asm, cg, solve_vars, run, dyn, daemon, numbering>>

NextLoadVector == LoadVectorCall

SpecLoadVector == InitLoadVector /\ [][NextLoadVector]_vars

\* the nodal forces among the loads
NodalForces == {l \in DOMAIN loads : loads[l].load_type = "NodalForce"}

\* the sum of magnitude * factor over the forces of `applied` that entry sends to i
RECURSIVE LoadSum(_, _, _, _)
LoadSum(applied, entry, i, upto) ==
    IF upto = 0 THEN Zero
    ELSE IF upto \in applied /\ entry[upto] = i
    THEN FAdd(LoadSum(applied, entry, i, upto - 1),
              FMul(R(loads[upto].magnitude), R(loads[upto].factor)))
    ELSE LoadSum(applied, entry, i, upto - 1)

\* vector is the zero vector changed by the forces of `applied` alone, each
\* adding magnitude * factor to one entry, forces on the same node and DOF to
\* the same entry
OnlyChangedBy(applied, vector) ==
    \E entry \in [DOMAIN loads -> DOMAIN vector] \cup {<<>>} :
        /\ DOMAIN entry = DOMAIN loads
        /\ \A l, m \in applied :
              (loads[l].node_id = loads[m].node_id /\ loads[l].dof = loads[m].dof)
                  => entry[l] = entry[m]
        /\ \A i \in DOMAIN vector : vector[i] = LoadSum(applied, entry, i, Len(loads))

MissingLoadNode == \E l \in NodalForces : loads[l].node_id \notin DOMAIN nodes

LoadVectorReturned ==
    invocation.fn = "assemble_load_vector" /\ invocation.phase = "returned"

NoNodalEntry ==
    \A i \in DOMAIN constraints :
        constraints[i].constraint_type = "NodalConstraint"
            => constraints[i].constraints = <<>>

\* solve returned from its validation stage with an error
RejectedByValidation ==
    /\ stages = <<"validate">> /\ pc = "done"
    /\ Unwrap(outcome).status = "Err"

\* C27: once the validation stage of a static solve has run, a model without
\* any nodal (DOF, value) entry has been rejected by it, no assembly stage
\* having run, with the error of Model::validate if that fails and with
\* ValidationError otherwise; and a model without loads that Model::validate
\* accepts and that has a nodal entry has not been rejected by it.
C27_ValidationNeedsNodalEntry ==
    stages # <<>> =>
        /\ NoNodalEntry =>
              /\ RejectedByValidation
              /\ Unwrap(outcome).error =
                    (IF model_validate(TheModel).ok THEN "ValidationError"
                     ELSE model_validate(TheModel).err)
        /\ (loads = <<>> /\ ~NoNodalEntry /\ model_validate(TheModel).ok) =>
              /\ stages[1] = "validate"
              /\ ~RejectedByValidation

\* a model whose only constraint is a rigid link, otherwise valid, was
\* rejected with ValidationError by the validation stage
C27_Witness ==
    /\ RejectedByValidation
    /\ constraints # <<>>
    /\ \A i \in DOMAIN constraints : constraints[i].constraint_type = "RigidLink"
    /\ model_validate(TheModel).ok
    /\ Unwrap(outcome).error = "ValidationError"


(***************************************************************************)
(* The element indices against the dimension of the system.                *)
(***************************************************************************)
\* C28: for a model Model::validate accepts, every global DOF index that
\* map_element_dofs_efficient has given to an element is smaller than the
\* dimension calculate_active_dofs gave the system, whatever the node ids are.
C28_ElementIndicesBelowDimension ==
    (numbering.pc \in {"map", "done"} /\ model_validate(TheModel).ok) =>
        \A id \in DOMAIN numbering.global_dofs :
            \A t \in DOMAIN numbering.global_dofs[id] :
                numbering.global_dofs[id][t] < numbering.total_dofs


(***************************************************************************)
(* The numbering of the DOFs of loads.                                     *)
(***************************************************************************)
\* the forces the guard of assemble_load_vector lets through
ForcesInRange(vector) ==
    {l \in NodalForces : map_nodal_dof(loads[l].node_id, loads[l].dof) < VecLen(vector)}

\* C29: in a returned call of assemble_load_vector on loads whose nodes are in
\* the model, two nodal forces on different (node, DOF) pairs have different
\* global indices, and the vector returned is the zero vector changed by the
\* forces in range, each in an entry that no force on another (node, DOF) pair
\* shares.
C29_NodalDofMappingInjective ==
    (LoadVectorReturned /\ ~MissingLoadNode) =>
    \E result \in {Unwrap(invocation.result)} :
        /\ \A l, m \in NodalForces :
              (loads[l].node_id # loads[m].node_id \/ loads[l].dof # loads[m].dof)
                  => map_nodal_dof(loads[l].node_id, loads[l].dof)
                         # map_nodal_dof(loads[m].node_id, loads[m].dof)
        /\ result.ok
        /\ \E entry \in [DOMAIN loads -> DOMAIN result.val] \cup {<<>>} :
              /\ DOMAIN entry = DOMAIN loads
              /\ \A l, m \in ForcesInRange(result.val) :
                    (loads[l].node_id = loads[m].node_id /\ loads[l].dof = loads[m].dof)
                        <=> entry[l] = entry[m]
              /\ \A i \in DOMAIN result.val :
                    result.val[i] = LoadSum(ForcesInRange(result.val), entry, i, Len(loads))


\* C30: the session map of the daemon never holds more than max_sessions
\* sessions.
C30_SessionsWithinMaximum ==
    daemon.phase = "running" =>
        Cardinality(DOMAIN daemon.sessions) <= daemon.config.max_sessions

=============================================================================
